---- MODULE Spec2Model ----
(***************************************************************************)
(* Sigilforge: the token manager (sigilforge-core/src/token_manager.rs)    *)
(* over the secret store (sigilforge-core/src/store).                      *)
(*                                                                         *)
(* Strings are sequences of atoms (single characters, or fixed words that  *)
(* are never split), so that formatting, joining, splitting and parsing    *)
(* are computed rather than assumed.  Option<T> is a sequence of length    *)
(* at most one: None is <<>> and Some(x) is <<x>>.  Instants are integers  *)
(* counted in ticks, TicksPerSec ticks to the second, so that the whole-   *)
(* second truncation of DateTime::timestamp() is visible.                  *)
(***************************************************************************)
EXTENDS Integers, Sequences, FiniteSets, TLC

VARIABLES store, now, last, pc, loc, flow, net

vars == <<store, now, last, pc, loc, flow, net>>

(***************************************************************************)
(* Bounds of the model                                                     *)
(***************************************************************************)
TicksPerSec == 2
StartSecs == 1000
ShortExpiresIn == 60
LongExpiresIn == 3600

(***************************************************************************)
(* Option                                                                  *)
(***************************************************************************)
None == <<>>
Some(x) == <<x>>
IsSome(o) == o # <<>>
Unwrap(o) == o[1]

(***************************************************************************)
(* Time: chrono::DateTime<Utc> and chrono::Duration, in ticks              *)
(***************************************************************************)
DEFAULT_EXPIRY_BUFFER_MINUTES == 5
DurationMinutes(m) == m * 60 * TicksPerSec
DurationSeconds(s) == s * TicksPerSec
expiry_buffer == DurationMinutes(DEFAULT_EXPIRY_BUFFER_MINUTES)
Now0 == StartSecs * TicksPerSec

\* DateTime::timestamp(): whole seconds since the epoch, sub-seconds dropped
timestamp(t) == t \div TicksPerSec
\* DateTime::from_timestamp(secs, 0)
from_timestamp(secs) == secs * TicksPerSec

(***************************************************************************)
(* i64::to_string and str::parse::<i64> over decimal digits                *)
(***************************************************************************)
Digits == <<"0", "1", "2", "3", "4", "5", "6", "7", "8", "9">>
DigitValue(c) == CHOOSE d \in 0..9 : Digits[d + 1] = c
IsDigit(c) == \E d \in 0..9 : Digits[d + 1] = c

RECURSIVE to_string(_)
to_string(n) ==
    IF n < 10 THEN <<Digits[n + 1]>>
    ELSE to_string(n \div 10) \o <<Digits[(n % 10) + 1]>>

RECURSIVE ParseDigits(_, _)
ParseDigits(s, acc) ==
    IF s = <<>> THEN acc
    ELSE ParseDigits(Tail(s), acc * 10 + DigitValue(Head(s)))

\* variant: the digits at the front are read and the rest is ignored
parse_i64_Lenient(s) ==
    IF s # <<>> /\ IsDigit(s[1]) THEN Some(DigitValue(s[1])) ELSE None

\* Ok(n) is Some(n), Err is None
parse_i64(s) ==
    IF s # <<>> /\ \A i \in 1..Len(s) : IsDigit(s[i])
    THEN Some(ParseDigits(s, 0))
    ELSE None

(***************************************************************************)
(* Vec<String>::join(",") and str::split(',').filter(|s| !s.is_empty())    *)
(***************************************************************************)
RECURSIVE join(_, _)
join(v, sep) ==
    IF v = <<>> THEN <<>>
    ELSE IF Len(v) = 1 THEN v[1]
    ELSE v[1] \o <<sep>> \o join(Tail(v), sep)

RECURSIVE split(_, _, _)
\* cur is the piece being read; the result always has at least one piece
split(s, sep, cur) ==
    IF s = <<>> THEN <<cur>>
    ELSE IF Head(s) = sep THEN <<cur>> \o split(Tail(s), sep, <<>>)
    ELSE split(Tail(s), sep, Append(cur, Head(s)))

RECURSIVE filter_non_empty(_)
filter_non_empty(v) ==
    IF v = <<>> THEN <<>>
    ELSE IF Head(v) = <<>> THEN filter_non_empty(Tail(v))
    ELSE <<Head(v)>> \o filter_non_empty(Tail(v))

(***************************************************************************)
(* Identifiers, credential types and storage keys                          *)
(***************************************************************************)
GITHUB == <<"github">>
ACME == <<"acme">>
PERSONAL == <<"personal">>
WORK == <<"work">>

\* the (ServiceId, AccountId) pairs the callers use
MainPair == <<GITHUB, PERSONAL>>
OtherPair == <<ACME, WORK>>
Pairs == {MainPair, OtherPair}

\* CredentialType::as_str
AccessToken == "access_token"
RefreshToken == "refresh_token"
TokenExpiry == "token_expiry"
TokenScopes == "token_scopes"
ClientId == "client_id"
ClientSecret == "client_secret"
CredentialTypes ==
    {AccessToken, RefreshToken, TokenExpiry, TokenScopes, ClientId, ClientSecret}

\* format!("sigilforge/{}/{}/{}", service, account, cred_type)
credential_key(service, account, cred_type) ==
    <<"sigilforge", "/">> \o service \o <<"/">> \o account \o <<"/", cred_type>>

Keys == {credential_key(p[1], p[2], ct) : p \in Pairs, ct \in CredentialTypes}

\* ProviderRegistry::with_defaults(): the provider ids registered at startup
Providers == {GITHUB, <<"spotify">>, <<"google">>}
providers_get(service) == IF service \in Providers THEN Some(service) ELSE None

(***************************************************************************)
(* MemoryStore: a map from key to Secret                                   *)
(***************************************************************************)
MemoryStore_new == [k \in Keys |-> None]
store_get(s, key) == s[key]
store_set(s, key, secret) == [s EXCEPT ![key] = Some(secret)]
store_delete(s, key) == [s EXCEPT ![key] = None]

\* DefaultTokenManager::get_credential
get_credential(s, service, account, cred_type) ==
    store_get(s, credential_key(service, account, cred_type))

(***************************************************************************)
(* Token and TokenSet                                                      *)
(***************************************************************************)
Token_new(access_token) ==
    [access_token |-> access_token, expires_at |-> None, scopes |-> <<>>]
with_expiry(token, expires_at) == [token EXCEPT !.expires_at = Some(expires_at)]
with_scopes(token, scopes) == [token EXCEPT !.scopes = scopes]
TokenSet_new(token) == [access_token |-> token, refresh_token |-> None]
with_refresh_token(token_set, refresh_token) ==
    [token_set EXCEPT !.refresh_token = Some(refresh_token)]

\* variant: the comparison includes the instant now + duration itself
expires_within_Inclusive(token, duration, t) ==
    IF IsSome(token.expires_at)
    THEN Unwrap(token.expires_at) <= t + duration
    ELSE FALSE

\* Token::expires_within(duration), with Utc::now() = t
expires_within(token, duration, t) ==
    IF IsSome(token.expires_at)
    THEN Unwrap(token.expires_at) < t + duration
    ELSE FALSE

\* variant: the buffer is left out, as Token::is_expired does
is_token_expired_NoBuffer(token, t) == expires_within(token, 0, t)

\* DefaultTokenManager::is_token_expired
is_token_expired(token, t) == expires_within(token, expiry_buffer, t)

(***************************************************************************)
(* get_token_set: reads access token, expiry, scopes and refresh token     *)
(***************************************************************************)
ReadExpiry(token, expiry_secret) ==
    IF IsSome(expiry_secret) /\ IsSome(parse_i64(Unwrap(expiry_secret)))
    THEN with_expiry(token, from_timestamp(Unwrap(parse_i64(Unwrap(expiry_secret)))))
    ELSE token

ReadScopes(token, scopes_secret) ==
    IF IsSome(scopes_secret)
    THEN with_scopes(token, filter_non_empty(split(Unwrap(scopes_secret), ",", <<>>)))
    ELSE token

ReadRefresh(token_set, refresh_secret) ==
    IF IsSome(refresh_secret)
    THEN with_refresh_token(token_set, Unwrap(refresh_secret))
    ELSE token_set

get_token_set(s, service, account) ==
    LET access_token_secret == get_credential(s, service, account, AccessToken)
    IN  IF access_token_secret = None THEN None
        ELSE Some(ReadRefresh(
                 TokenSet_new(
                     ReadScopes(
                         ReadExpiry(Token_new(Unwrap(access_token_secret)),
                                    get_credential(s, service, account, TokenExpiry)),
                         get_credential(s, service, account, TokenScopes))),
                 get_credential(s, service, account, RefreshToken)))

(***************************************************************************)
(* store_token_set: the store.set calls it makes, in order                 *)
(***************************************************************************)
\* variant: the refresh token is not among the writes
StoreWrites_NoRefresh(service, account, token_set) ==
    <<  <<credential_key(service, account, AccessToken),
          token_set.access_token.access_token>> >>
    \o (IF IsSome(token_set.access_token.expires_at)
        THEN << <<credential_key(service, account, TokenExpiry),
                  to_string(timestamp(Unwrap(token_set.access_token.expires_at)))>> >>
        ELSE <<>>)
    \o (IF token_set.access_token.scopes # <<>>
        THEN << <<credential_key(service, account, TokenScopes),
                  join(token_set.access_token.scopes, ",")>> >>
        ELSE <<>>)

StoreWrites(service, account, token_set) ==
    <<  <<credential_key(service, account, AccessToken),
          token_set.access_token.access_token>> >>
    \o (IF IsSome(token_set.access_token.expires_at)
        THEN << <<credential_key(service, account, TokenExpiry),
                  to_string(timestamp(Unwrap(token_set.access_token.expires_at)))>> >>
        ELSE <<>>)
    \o (IF token_set.access_token.scopes # <<>>
        THEN << <<credential_key(service, account, TokenScopes),
                  join(token_set.access_token.scopes, ",")>> >>
        ELSE <<>>)
    \o (IF IsSome(token_set.refresh_token)
        THEN << <<credential_key(service, account, RefreshToken),
                  Unwrap(token_set.refresh_token)>> >>
        ELSE <<>>)

RECURSIVE ApplyWrites(_, _)
ApplyWrites(s, writes) ==
    IF writes = <<>> THEN s
    ELSE ApplyWrites(store_set(s, Head(writes)[1], Head(writes)[2]), Tail(writes))

store_token_set(s, service, account, token_set) ==
    ApplyWrites(s, StoreWrites(service, account, token_set))

(***************************************************************************)
(* TokenError and its Display                                              *)
(***************************************************************************)
\* variant: the two fields are filled the wrong way round
NotFound_Swapped(service, account) ==
    [type |-> "NotFound", service |-> account, account |-> service]

NotFound(service, account) ==
    [type |-> "NotFound", service |-> service, account |-> account]
Expired(message) == [type |-> "Expired", message |-> message]
RefreshFailed(message) == [type |-> "RefreshFailed", message |-> message]
ProviderNotConfigured(provider) ==
    [type |-> "ProviderNotConfigured", provider |-> provider]

\* #[error("...")] of TokenError
Display(e) ==
    CASE e.type = "NotFound" ->
            <<"no token available for ">> \o e.service \o <<"/">> \o e.account
      [] e.type = "Expired" ->
            <<"token expired and refresh failed: ">> \o e.message
      [] e.type = "RefreshFailed" ->
            <<"token refresh failed: ">> \o e.message
      [] e.type = "ProviderNotConfigured" ->
            <<"provider not configured: ">> \o e.provider

Ok(v) == [kind |-> "Ok", value |-> v]
Err(e) == [kind |-> "Err", error |-> e]

(***************************************************************************)
(* The provider's token endpoint: what it may answer to a refresh request  *)
(***************************************************************************)
NewAccessToken == <<"n1">>
NewRefreshToken == <<"r2">>
READ == <<"read">>
WRITE == <<"write">>

Responses ==
    [kind : {"ok"}, access_token : {NewAccessToken},
     expires_in : {None, Some(ShortExpiresIn), Some(LongExpiresIn)},
     refresh_token : {None, Some(NewRefreshToken)},
     scopes : {<<>>, <<READ, WRITE>>}]
    \cup {[kind |-> "error", error |-> <<"invalid_grant">>]}

\* no request was sent, so no response was consumed
NoResponse == [kind |-> "none"]

(***************************************************************************)
(* refresh_access_token: whether a request is sent, and the result         *)
(***************************************************************************)
\* the token request: grant_type=refresh_token with the client credentials
RefreshRequest(s, service, account, refresh_token) ==
    [refresh_token |-> refresh_token,
     client_id |-> Unwrap(get_credential(s, service, account, ClientId)),
     client_secret |-> get_credential(s, service, account, ClientSecret)]

\* lines 163-187: provider lookup and client credentials precede the request
RefreshSends(s, service, account) ==
    /\ IsSome(providers_get(service))
    /\ IsSome(get_credential(s, service, account, ClientId))

\* variant: the stored refresh token is kept even when the provider rotates it
TokenSetOfResponse_KeepsOld(resp, refresh_token, t) ==
    LET token == with_scopes(Token_new(resp.access_token), resp.scopes)
        timed == IF IsSome(resp.expires_in)
                 THEN with_expiry(token, t + DurationSeconds(Unwrap(resp.expires_in)))
                 ELSE token
    IN  with_refresh_token(TokenSet_new(timed), refresh_token)

\* lines 198-226: the TokenSet built from a token response received at t
TokenSetOfResponse(resp, refresh_token, t) ==
    LET token == with_scopes(Token_new(resp.access_token), resp.scopes)
        timed == IF IsSome(resp.expires_in)
                 THEN with_expiry(token, t + DurationSeconds(Unwrap(resp.expires_in)))
                 ELSE token
    IN  IF IsSome(resp.refresh_token)
        THEN with_refresh_token(TokenSet_new(timed), Unwrap(resp.refresh_token))
        ELSE with_refresh_token(TokenSet_new(timed), refresh_token)

refresh_access_token(s, service, account, refresh_token, resp, t) ==
    IF providers_get(service) = None
    THEN Err(ProviderNotConfigured(service))
    ELSE IF get_credential(s, service, account, ClientId) = None
    THEN Err(RefreshFailed(<<"client ID not found for ">> \o service
                           \o <<"/">> \o account))
    ELSE IF resp.kind # "ok"
    THEN Err(RefreshFailed(<<"token refresh failed: ">> \o resp.error))
    ELSE Ok(TokenSetOfResponse(resp, refresh_token, t))

(***************************************************************************)
(* ensure_access_token                                                     *)
(***************************************************************************)
\* the refresh token ensure_access_token passes to refresh_access_token,
\* None when it does not reach the refresh
RefreshTokenToUse(s, service, account, t) ==
    LET ts == get_token_set(s, service, account)
    IN  IF IsSome(ts) /\ is_token_expired(Unwrap(ts).access_token, t)
        THEN Unwrap(ts).refresh_token
        ELSE None

\* the requests ensure_access_token sends to the provider, in order: the
\* refresh is attempted once (lines 273-300 hold no loop)
EnsureRequests(s, service, account, t) ==
    LET rt == RefreshTokenToUse(s, service, account, t)
    IN  IF IsSome(rt) /\ RefreshSends(s, service, account)
        THEN <<RefreshRequest(s, service, account, Unwrap(rt))>>
        ELSE <<>>

\* variant: the underlying error is left out of the message
RefreshFailureMessage_Bare(e) == <<"token refresh failed">>

\* line 298: format!("token refresh failed: {}", e)
RefreshFailureMessage(e) == <<"token refresh failed: ">> \o Display(e)

\* line 304
NoRefreshTokenMessage == <<"token expired and no refresh token available">>

\* variant: the refreshed token set is returned without being stored
ensure_access_token_NoPersist(s, service, account, resp, t) ==
    LET ts == get_token_set(s, service, account)
    IN  IF ts = None
        THEN [result |-> Err(NotFound(service, account)), store |-> s, writes |-> 0]
        ELSE IF ~is_token_expired(Unwrap(ts).access_token, t)
        THEN [result |-> Ok(Unwrap(ts).access_token), store |-> s, writes |-> 0]
        ELSE IF IsSome(Unwrap(ts).refresh_token)
        THEN LET r == refresh_access_token(s, service, account,
                                           Unwrap(Unwrap(ts).refresh_token), resp, t)
             IN  IF r.kind = "Ok"
                 THEN [result |-> Ok(r.value.access_token), store |-> s,
                       writes |-> 0]
                 ELSE [result |-> Err(Expired(RefreshFailureMessage(r.error))),
                       store |-> s, writes |-> 0]
        ELSE [result |-> Err(Expired(NoRefreshTokenMessage)),
              store |-> s, writes |-> 0]

\* result: what the caller gets; store: the store afterwards;
\* writes: the number of store.set calls made
ensure_access_token(s, service, account, resp, t) ==
    LET ts == get_token_set(s, service, account)
    IN  IF ts = None
        THEN [result |-> Err(NotFound(service, account)), store |-> s, writes |-> 0]
        ELSE IF ~is_token_expired(Unwrap(ts).access_token, t)
        THEN [result |-> Ok(Unwrap(ts).access_token), store |-> s, writes |-> 0]
        ELSE IF IsSome(Unwrap(ts).refresh_token)
        THEN LET r == refresh_access_token(s, service, account,
                                           Unwrap(Unwrap(ts).refresh_token), resp, t)
             IN  IF r.kind = "Ok"
                 THEN [result |-> Ok(r.value.access_token),
                       store |-> store_token_set(s, service, account, r.value),
                       writes |-> Len(StoreWrites(service, account, r.value))]
                 ELSE [result |-> Err(Expired(RefreshFailureMessage(r.error))),
                       store |-> s, writes |-> 0]
        ELSE [result |-> Err(Expired(NoRefreshTokenMessage)),
              store |-> s, writes |-> 0]

(***************************************************************************)
(* revoke_tokens: three deletes whose errors are dropped                   *)
(***************************************************************************)
\* variant: the stored scopes are deleted as well
RevokedTypes_WithScopes == <<AccessToken, RefreshToken, TokenExpiry, TokenScopes>>

\* lines 434-441: the keys revoke_tokens deletes, in order
RevokedTypes == <<AccessToken, RefreshToken, TokenExpiry>>

\* SecretStore::delete on a backend where the deletes of `failing` fail
\* (KeyringStore::delete returns BackendError): the key stays as it was
BackendError == [type |-> "BackendError"]
DeleteResult(cred_type, failing) ==
    IF cred_type \in failing THEN Err(BackendError) ELSE Ok(<<>>)

RECURSIVE DeleteEach(_, _, _, _, _)
DeleteEach(s, service, account, types, failing) ==
    IF types = <<>> THEN s
    ELSE DeleteEach(
            IF DeleteResult(Head(types), failing).kind = "Err" THEN s
            ELSE store_delete(s, credential_key(service, account, Head(types))),
            service, account, Tail(types), failing)

\* the first Err among the three deletes, as `?` would return it
RevokePropagating(failing) ==
    IF \E i \in 1..Len(RevokedTypes) : RevokedTypes[i] \in failing
    THEN Err(BackendError)
    ELSE Ok(<<>>)

\* `let _ = self.store.delete(..).await;` three times, then Ok(())
RevokeResult(failing) == Ok(<<>>)

revoke_tokens(s, service, account, failing) ==
    [result |-> RevokeResult(failing),
     store |-> DeleteEach(s, service, account, RevokedTypes, failing)]

(***************************************************************************)
(* Inputs of the callers                                                   *)
(***************************************************************************)
READ_COMMA_WRITE == <<"read", ",", "write">>

AccessInputs == {<<"a1">>, <<"a2">>}
ExpiryInputs ==
    {None,
     Some(Now0 + expiry_buffer \div 2),
     Some(Now0 + expiry_buffer + 1),
     Some(Now0 + 2 * expiry_buffer)}
ScopeInputs == {<<>>, <<READ, WRITE>>, <<READ_COMMA_WRITE, <<>>>>}
RefreshInputs == {None, Some(<<"r1">>)}

MakeTokenSet(a, e, sc, r) ==
    [access_token |-> [access_token |-> a, expires_at |-> e, scopes |-> sc],
     refresh_token |-> r]

TokenSets ==
    {MakeTokenSet(a, e, sc, r) :
        a \in AccessInputs, e \in ExpiryInputs, sc \in ScopeInputs, r \in RefreshInputs}

\* the other account is given one stale token set with a refresh token
OtherTokenSets ==
    {MakeTokenSet(<<"a2">>, Some(Now0 + expiry_buffer \div 2), <<>>, Some(<<"r1">>))}

TokenSetsFor(pair) == IF pair = MainPair THEN TokenSets ELSE OtherTokenSets

\* the clock readings the model observes: the start and one tick later
NowValues == {Now0, Now0 + 1}

\* which of the three deletes of a revoke_tokens call fail
DeleteFailures ==
    {{}, {RefreshToken, TokenExpiry}, {AccessToken, RefreshToken, TokenExpiry}}

\* the accounts whose client credentials get configured
ClientPairs == {MainPair}

(***************************************************************************)
(* State: the secret store, the clock, the last call and its outcome, (for *)
(* the concurrent callers) each caller's position and locals, the OAuth    *)
(* flow engine instance, and the requests sent to the token endpoint       *)
(***************************************************************************)
Procs == {1, 2}

Call(op, pair, input, requests, response, result, writes, failing, again) ==
    [op |-> op, pair |-> pair, input |-> input, requests |-> requests,
     response |-> response, result |-> result, writes |-> writes,
     at |-> now, failing |-> failing, again |-> again]

NoCall ==
    [op |-> "none", pair |-> MainPair, input |-> None, requests |-> <<>>,
     response |-> NoResponse, result |-> Ok(<<>>), writes |-> 0,
     at |-> Now0, failing |-> {}, again |-> FALSE]

Idle == [op |-> "idle"]

\* no OAuth flow engine is in use, and nothing was sent to a token endpoint
NoFlow == [kind |-> "none"]

Init ==
    /\ store = MemoryStore_new
    /\ now = Now0
    /\ last = NoCall
    /\ pc = [p \in Procs |-> "idle"]
    /\ loc = [p \in Procs |-> Idle]
    /\ flow = NoFlow
    /\ net = <<>>

(***************************************************************************)
(* One caller at a time: each call runs to completion                      *)
(***************************************************************************)
EnsureAccessToken(pair, resp) ==
    LET requests == EnsureRequests(store, pair[1], pair[2], now)
        out == ensure_access_token(store, pair[1], pair[2], resp, now)
    IN  /\ resp \in (IF requests # <<>> THEN Responses ELSE {NoResponse})
        /\ store' = out.store
        /\ last' = Call("ensure_access_token", pair, None, requests, resp,
                        out.result, out.writes, {}, FALSE)
        /\ UNCHANGED <<now, pc, loc, flow, net>>

GetTokenSet(pair) ==
    /\ last' = Call("get_token_set", pair, None, <<>>, NoResponse,
                    Ok(get_token_set(store, pair[1], pair[2])), 0, {}, FALSE)
    /\ UNCHANGED <<store, now, pc, loc, flow, net>>

StoreTokenSet(pair, token_set) ==
    /\ store' = store_token_set(store, pair[1], pair[2], token_set)
    /\ last' = Call("store_token_set", pair, Some(token_set), <<>>, NoResponse,
                    Ok(<<>>), Len(StoreWrites(pair[1], pair[2], token_set)),
                    {}, FALSE)
    /\ UNCHANGED <<now, pc, loc, flow, net>>

RevokeTokens(pair, failing) ==
    LET out == revoke_tokens(store, pair[1], pair[2], failing)
    IN  /\ store' = out.store
        /\ last' = Call("revoke_tokens", pair, None, <<>>, NoResponse,
                        out.result, 0, failing,
                        last.op = "revoke_tokens" /\ last.pair = pair)
        /\ UNCHANGED <<now, pc, loc, flow, net>>

\* the client credentials are put into the store directly, before any refresh
SetClientCredentials(pair) ==
    /\ store' = store_set(
                    store_set(store, credential_key(pair[1], pair[2], ClientId),
                              <<"test-client-id">>),
                    credential_key(pair[1], pair[2], ClientSecret),
                    <<"test-client-secret">>)
    /\ last' = Call("set_client_credentials", pair, None, <<>>, NoResponse,
                    Ok(<<>>), 2, {}, FALSE)
    /\ UNCHANGED <<now, pc, loc, flow, net>>

\* time passes
Tick ==
    /\ \E t \in NowValues : t > now /\ now' = t
    /\ UNCHANGED <<store, last, pc, loc, flow, net>>

Next ==
    \/ \E pair \in Pairs, resp \in Responses \cup {NoResponse} :
          EnsureAccessToken(pair, resp)
    \/ \E pair \in Pairs : GetTokenSet(pair)
    \/ \E pair \in Pairs : \E token_set \in TokenSetsFor(pair) :
          StoreTokenSet(pair, token_set)
    \/ \E pair \in Pairs, failing \in DeleteFailures : RevokeTokens(pair, failing)
    \/ \E pair \in ClientPairs : SetClientCredentials(pair)
    \/ Tick

Spec == Init /\ [][Next]_vars

(***************************************************************************)
(* Two concurrent callers on one account.  The DefaultTokenManager is      *)
(* shared by the connection tasks; every store.get / store.set and the     *)
(* token request is an .await, so the calls interleave between them.       *)
(***************************************************************************)
\* the token set the account holds when the callers arrive: stale, complete
InitialTokenSet ==
    MakeTokenSet(<<"a0">>, Some(Now0 + expiry_buffer \div 2), <<READ>>,
                 Some(<<"r0">>))

\* complete token sets for concurrent store_token_set calls
ConcTokenSets ==
    {MakeTokenSet(<<"a1">>, Some(Now0 + 2 * expiry_buffer), <<READ>>,
                  Some(<<"r1">>)),
     MakeTokenSet(<<"a2">>, Some(Now0 + 3 * expiry_buffer), <<READ, WRITE>>,
                  Some(<<"r2">>))}

\* the provider issues a different, complete token to each refresh request
ConcResponses(p) ==
    {[kind |-> "ok", access_token |-> <<"n", Digits[p + 1]>>,
      expires_in |-> Some(IF p = 1 THEN LongExpiresIn ELSE 2 * LongExpiresIn),
      refresh_token |-> Some(<<"q", Digits[p + 1]>>),
      scopes |-> IF p = 1 THEN <<READ>> ELSE <<READ, WRITE>>],
     [kind |-> "error", error |-> <<"invalid_grant">>]}

\* the order in which get_token_set reads the credentials
ReadOrder == <<AccessToken, TokenExpiry, TokenScopes, RefreshToken>>

Local(op, pair, got, token_set, writes, persisted, result) ==
    [op |-> op, pair |-> pair, got |-> got, token_set |-> token_set,
     writes |-> writes, persisted |-> persisted, result |-> result]

InitConc ==
    /\ store = store_token_set(
                  store_set(
                      store_set(MemoryStore_new,
                                credential_key(GITHUB, PERSONAL, ClientId),
                                <<"test-client-id">>),
                      credential_key(GITHUB, PERSONAL, ClientSecret),
                      <<"test-client-secret">>),
                  GITHUB, PERSONAL, InitialTokenSet)
    /\ now = Now0
    /\ last = NoCall
    /\ pc = [p \in Procs |-> "idle"]
    /\ loc = [p \in Procs |-> Idle]
    /\ flow = NoFlow
    /\ net = <<>>

\* ensure_access_token is called: get_token_set starts reading
CallEnsure(p, pair) ==
    /\ pc[p] = "idle"
    /\ pc' = [pc EXCEPT ![p] = "read"]
    /\ loc' = [loc EXCEPT ![p] =
                  Local("ensure_access_token", pair, <<>>, None, <<>>, FALSE, None)]
    /\ UNCHANGED <<store, now, last, flow, net>>

\* the token set get_token_set builds from the four credentials read
TokenSetOfReads(got) ==
    ReadRefresh(
        TokenSet_new(ReadScopes(ReadExpiry(Token_new(Unwrap(got[1])), got[2]),
                                got[3])),
        got[4])

\* what ensure_access_token does once get_token_set has returned token_set:
\* return it, fail, or go on to the refresh
AfterRead(p, token_set) ==
    IF ~is_token_expired(token_set.access_token, now)
    THEN /\ pc' = [pc EXCEPT ![p] = "done"]
         /\ loc' = [loc EXCEPT ![p].token_set = Some(token_set),
                               ![p].result = Some(Ok(token_set.access_token))]
    ELSE IF IsSome(token_set.refresh_token)
    THEN /\ pc' = [pc EXCEPT ![p] = "refresh"]
         /\ loc' = [loc EXCEPT ![p].token_set = Some(token_set)]
    ELSE /\ pc' = [pc EXCEPT ![p] = "done"]
         /\ loc' = [loc EXCEPT ![p].token_set = Some(token_set),
                               ![p].result = Some(Err(Expired(NoRefreshTokenMessage)))]

\* one get_credential of get_token_set
ReadStep(p) ==
    /\ pc[p] = "read"
    /\ LET pair == loc[p].pair
           got == Append(loc[p].got,
                         get_credential(store, pair[1], pair[2],
                                        ReadOrder[Len(loc[p].got) + 1]))
       IN  IF got[1] = None
           THEN /\ pc' = [pc EXCEPT ![p] = "done"]
                /\ loc' = [loc EXCEPT ![p].got = got,
                                      ![p].result =
                                          Some(Err(NotFound(pair[1], pair[2])))]
           ELSE IF Len(got) < Len(ReadOrder)
           THEN /\ pc' = pc
                /\ loc' = [loc EXCEPT ![p].got = got]
           ELSE AfterRead(p, TokenSetOfReads(got))
    /\ UNCHANGED <<store, now, last, flow, net>>

\* refresh_access_token completes with the provider's answer resp; on
\* success store_token_set starts writing the new token set
Respond(p, resp) ==
    /\ pc[p] = "refresh"
    /\ LET pair == loc[p].pair
           r == refresh_access_token(
                    store, pair[1], pair[2],
                    Unwrap(Unwrap(loc[p].token_set).refresh_token), resp, now)
       IN  IF r.kind = "Ok"
           THEN /\ pc' = [pc EXCEPT ![p] = "write"]
                /\ loc' = [loc EXCEPT ![p].token_set = Some(r.value),
                                      ![p].writes =
                                          StoreWrites(pair[1], pair[2], r.value),
                                      ![p].result = Some(Ok(r.value.access_token))]
           ELSE /\ pc' = [pc EXCEPT ![p] = "done"]
                /\ loc' = [loc EXCEPT ![p].result =
                              Some(Err(Expired(RefreshFailureMessage(r.error))))]
    /\ UNCHANGED <<store, now, last, flow, net>>

\* store_token_set is called
CallStore(p, pair, token_set) ==
    /\ pc[p] = "idle"
    /\ pc' = [pc EXCEPT ![p] = "write"]
    /\ loc' = [loc EXCEPT ![p] =
                  Local("store_token_set", pair, <<>>, Some(token_set),
                        StoreWrites(pair[1], pair[2], token_set), FALSE,
                        Some(Ok(<<>>)))]
    /\ UNCHANGED <<store, now, last, flow, net>>

\* one store.set of store_token_set; the call returns after the last one
WriteStep(p) ==
    /\ pc[p] = "write"
    /\ store' = store_set(store, Head(loc[p].writes)[1], Head(loc[p].writes)[2])
    /\ loc' = [loc EXCEPT ![p].writes = Tail(loc[p].writes),
                          ![p].persisted = (Len(loc[p].writes) = 1)]
    /\ pc' = [pc EXCEPT ![p] = IF Len(loc[p].writes) = 1 THEN "done" ELSE "write"]
    /\ UNCHANGED <<now, last, flow, net>>

NextConc ==
    \E p \in Procs :
        \/ CallEnsure(p, MainPair)
        \/ ReadStep(p)
        \/ \E resp \in ConcResponses(p) : Respond(p, resp)
        \/ \E token_set \in ConcTokenSets : CallStore(p, MainPair, token_set)
        \/ WriteStep(p)

SpecConc == InitConc /\ [][NextConc]_vars

(***************************************************************************)
(* Identifiers that hold a "/".  ServiceId::new and AccountId::new accept  *)
(* any string, and credential_key puts the two ids next to each other      *)
(* with "/" between them.                                                  *)
(***************************************************************************)
SlashService == <<"a", "/", "b">>
ShortAccount == <<"c">>
ShortService == <<"a">>
SlashAccount == <<"b", "/", "c">>

IdPairs == {<<SlashService, ShortAccount>>, <<ShortService, SlashAccount>>}
IdKeys == {credential_key(p[1], p[2], ct) : p \in IdPairs, ct \in CredentialTypes}

\* the token sets stored for these accounts
IdTokenSets ==
    {MakeTokenSet(a, e, sc, r) :
        a \in AccessInputs, e \in {None, Some(Now0 + 2 * expiry_buffer)},
        sc \in {<<>>, <<READ, WRITE>>}, r \in RefreshInputs}

InitIds ==
    /\ store = [k \in IdKeys |-> None]
    /\ now = Now0
    /\ last = NoCall
    /\ pc = [p \in Procs |-> "idle"]
    /\ loc = [p \in Procs |-> Idle]
    /\ flow = NoFlow
    /\ net = <<>>

NextIds ==
    \/ \E pair \in IdPairs : \E token_set \in IdTokenSets :
          StoreTokenSet(pair, token_set)
    \/ \E pair \in IdPairs : RevokeTokens(pair, {})
    \/ \E pair \in IdPairs : GetTokenSet(pair)

SpecIds == InitIds /\ [][NextIds]_vars

(***************************************************************************)
(* PkceFlow (sigilforge-core/src/oauth/pkce.rs): one flow instance whose   *)
(* verifier sits in an Arc<Mutex<Option<PkceCodeVerifier>>>, and callers   *)
(* of exchange_code that run concurrently on it.  Verifiers are numbered   *)
(* in the order new_random_sha256 generates them.                          *)
(***************************************************************************)
MaxVerifiers == 2

TokenError_OAuthError(message) == [type |-> "OAuthError", message |-> message]

\* PkceFlow::new: no verifier yet.  calls counts the exchange_code calls made
\* since the last build_authorization_url (2 stands for two or more)
PkceFlow_new == [kind |-> "pkce", verifier |-> None, generated |-> 0, calls |-> 0]

\* variant: the verifier is cloned out of the mutex and stays in it
verifier_take_Clone(slot) == slot

\* Option::take: what is left in the mutex
verifier_take(slot) == None

\* variant: build_authorization_url does not keep the verifier
verifier_set_Dropped(pkce_verifier) == None

\* line 120: *self.verifier.lock().unwrap() = Some(pkce_verifier)
verifier_set(pkce_verifier) == Some(pkce_verifier)

\* line 155
VERIFIER_NOT_FOUND ==
    <<"PKCE verifier not found", ". Call build_authorization_url first.">>

AuthCodes == {<<"code-1">>, <<"code-2">>}

\* what the token endpoint may answer to a code exchange
PkceResponses ==
    [kind : {"ok"}, access_token : {NewAccessToken},
     expires_in : {None, Some(LongExpiresIn)},
     refresh_token : {None, Some(NewRefreshToken)},
     scopes : {<<>>}]
    \cup {[kind |-> "error", error |-> <<"invalid_grant">>],
          [kind |-> "error", error |-> <<"request failed">>]}

\* lines 174-201: the TokenSet built from a token response received at t
ExchangeTokenSet(resp, t) ==
    LET token == with_scopes(Token_new(resp.access_token), resp.scopes)
        timed == IF IsSome(resp.expires_in)
                 THEN with_expiry(token, t + DurationSeconds(Unwrap(resp.expires_in)))
                 ELSE token
    IN  IF IsSome(resp.refresh_token)
        THEN with_refresh_token(TokenSet_new(timed), Unwrap(resp.refresh_token))
        ELSE TokenSet_new(timed)

\* a caller inside exchange_code: the code it passed, the verifier it took,
\* and the result once it has one
Exchange(code, verifier, result) ==
    [op |-> "exchange_code", code |-> code, verifier |-> verifier,
     result |-> result]

InitPkce ==
    /\ store = MemoryStore_new
    /\ now = Now0
    /\ last = NoCall
    /\ pc = [p \in Procs |-> "idle"]
    /\ loc = [p \in Procs |-> Idle]
    /\ flow = PkceFlow_new
    /\ net = <<>>

\* build_authorization_url: a new verifier replaces whatever the mutex holds
BuildAuthorizationUrl ==
    /\ flow.generated < MaxVerifiers
    /\ flow' = [flow EXCEPT !.verifier = verifier_set(flow.generated + 1),
                            !.generated = flow.generated + 1,
                            !.calls = 0]
    /\ UNCHANGED <<store, now, last, pc, loc, net>>

\* exchange_code, line 153: self.verifier.lock().unwrap().take(), and the
\* early return when the mutex held nothing
TakeVerifier(p, code) ==
    /\ pc[p] = "idle"
    /\ flow' = [flow EXCEPT !.verifier = verifier_take(flow.verifier),
                            !.calls = IF flow.calls < 2 THEN flow.calls + 1 ELSE 2]
    /\ IF flow.verifier = None
       THEN /\ pc' = [pc EXCEPT ![p] = "done"]
            /\ loc' = [loc EXCEPT ![p] =
                          Exchange(code, None,
                                   Some(Err(TokenError_OAuthError(VERIFIER_NOT_FOUND))))]
       ELSE /\ pc' = [pc EXCEPT ![p] = "request"]
            /\ loc' = [loc EXCEPT ![p] = Exchange(code, flow.verifier, None)]
    /\ UNCHANGED <<store, now, last, net>>

\* lines 165-169: the token request goes out with the code and the verifier
SendTokenRequest(p) ==
    /\ pc[p] = "request"
    /\ net' = Append(net, [grant_type |-> "authorization_code",
                           code |-> loc[p].code,
                           code_verifier |-> Unwrap(loc[p].verifier)])
    /\ pc' = [pc EXCEPT ![p] = "await"]
    /\ UNCHANGED <<store, now, last, loc, flow>>

\* lines 169-201: the answer arrives and exchange_code builds its result
ReceiveTokenResponse(p, resp) ==
    /\ pc[p] = "await"
    /\ loc' = [loc EXCEPT ![p].result =
                  IF resp.kind = "ok"
                  THEN Some(Ok(ExchangeTokenSet(resp, now)))
                  ELSE Some(Err(TokenError_OAuthError(
                                    <<"token exchange failed: ">> \o resp.error)))]
    /\ pc' = [pc EXCEPT ![p] = "done"]
    /\ UNCHANGED <<store, now, last, flow, net>>

\* exchange_code has returned; the caller may call again
ReturnExchange(p) ==
    /\ pc[p] = "done"
    /\ pc' = [pc EXCEPT ![p] = "idle"]
    /\ loc' = [loc EXCEPT ![p] = Idle]
    /\ UNCHANGED <<store, now, last, flow, net>>

NextPkce ==
    \/ BuildAuthorizationUrl
    \/ \E p \in Procs, code \in AuthCodes : TakeVerifier(p, code)
    \/ \E p \in Procs : SendTokenRequest(p)
    \/ \E p \in Procs, resp \in PkceResponses : ReceiveTokenResponse(p, resp)
    \/ \E p \in Procs : ReturnExchange(p)

SpecPkce == InitPkce /\ [][NextPkce]_vars

(***************************************************************************)
(* PkceFlow::listen_for_callback: the loopback listener.  A request is the *)
(* first line of what the browser sent, as a sequence of atoms in which    *)
(* " ", "?", "&" and "=" are single characters.                            *)
(***************************************************************************)
MaxRequests == 2

\* str::splitn(2, '='): cut at the first "=", if there is one
RECURSIVE splitn2(_, _, _)
splitn2(s, sep, cur) ==
    IF s = <<>> THEN <<cur>>
    ELSE IF Head(s) = sep THEN <<cur, Tail(s)>>
    ELSE splitn2(Tail(s), sep, Append(cur, Head(s)))

\* Iterator::nth(n), counting from 0
nth(v, n) == IF Len(v) > n THEN Some(v[n + 1]) ELSE None

\* lines 280-294: the last code, state and error parameters of the query
RECURSIVE ParseParams(_, _)
ParseParams(params, acc) ==
    IF params = <<>> THEN acc
    ELSE LET parts == splitn2(Head(params), "=", <<>>)
             next ==
                 IF Len(parts) # 2 THEN acc
                 ELSE IF parts[1] = <<"code">>
                 THEN [acc EXCEPT !.code = Some(parts[2])]
                 ELSE IF parts[1] = <<"state">>
                 THEN [acc EXCEPT !.state = Some(parts[2])]
                 ELSE IF parts[1] = <<"error">>
                 THEN [acc EXCEPT !.error = Some(parts[2])]
                 ELSE acc
         IN  ParseParams(Tail(params), next)

NoParams == [code |-> None, state |-> None, error |-> None]

\* lines 276-279: the query of the request line, if it has one
QueryOf(request) ==
    LET path == nth(filter_non_empty(split(request, " ", <<>>)), 1)
    IN  IF path = None THEN None ELSE nth(split(Unwrap(path), "?", <<>>), 1)

\* the parameters the listener reads from a request
ParamsOf(request) ==
    IF QueryOf(request) = None THEN None
    ELSE Some(ParseParams(split(Unwrap(QueryOf(request)), "&", <<>>), NoParams))

STATE_MISMATCH == <<"state parameter mismatch">>

\* lines 276-338: what one accepted request leads to.  result is None when
\* the loop goes on to accept the next connection; page is what is written
\* to the socket
handle_request(request, expected_state) ==
    LET parsed == ParamsOf(request)
    IN  IF parsed = None
        THEN [result |-> None, page |-> "400 Bad Request"]
        ELSE LET q == Unwrap(parsed)
             IN  IF IsSome(q.error)
                 THEN [result |-> Some(Err(TokenError_OAuthError(
                                      <<"OAuth provider returned error: ">>
                                      \o Unwrap(q.error)))),
                       page |-> "Authentication Failed"]
                 ELSE IF IsSome(q.state) /\ Unwrap(q.state) # expected_state
                 THEN [result |-> Some(Err(TokenError_OAuthError(STATE_MISMATCH))),
                       page |-> "Authentication Failed"]
                 ELSE IF IsSome(q.code)
                 THEN [result |-> Some(Ok(Unwrap(q.code))),
                       page |-> "Authentication Successful!"]
                 ELSE [result |-> None, page |-> "400 Bad Request"]

\* the query parameters a browser, or anyone else on the machine, may send
CallbackParams ==
    {<<"code", "=", "abc">>, <<"code">>,
     <<"state", "=", "s1">>, <<"state", "=", "s2">>,
     <<"error", "=", "access_denied">>}

\* up to three parameters, no name twice
CallbackQueries ==
    {q \in UNION {[1..n -> CallbackParams] : n \in 0..3} :
        \A i, j \in DOMAIN q : i # j => q[i][1] # q[j][1]}

CallbackRequests ==
    {<<"GET", " ", "/callback", "?">> \o join(q, "&") \o <<" ", "HTTP/1.1">> :
        q \in CallbackQueries}
    \cup {<<"GET", " ", "/favicon.ico", " ", "HTTP/1.1">>, <<>>}

ExpectedStates == {<<"s1">>, <<"s2">>}

Listening(expected_state, request, result) ==
    [op |-> "listen_for_callback", expected_state |-> expected_state,
     request |-> request, result |-> result]

InitCallback ==
    /\ store = MemoryStore_new
    /\ now = Now0
    /\ last = NoCall
    /\ pc = [p \in Procs |-> "idle"]
    /\ loc = [p \in Procs |-> Idle]
    /\ flow = PkceFlow_new
    /\ net = <<>>

\* listen_for_callback is called and binds the port
ListenForCallback(expected_state) ==
    /\ pc[1] = "idle"
    /\ pc' = [pc EXCEPT ![1] = "accept"]
    /\ loc' = [loc EXCEPT ![1] = Listening(expected_state, None, None)]
    /\ UNCHANGED <<store, now, last, flow, net>>

\* one turn of the loop: accept a connection, read the request, answer it,
\* and return or go on listening.  net collects the pages written
AcceptRequest(request) ==
    /\ pc[1] = "accept"
    /\ Len(net) < MaxRequests
    /\ LET out == handle_request(request, loc[1].expected_state)
       IN  /\ net' = Append(net, out.page)
           /\ loc' = [loc EXCEPT ![1].request = Some(request),
                                 ![1].result = out.result]
           /\ pc' = [pc EXCEPT ![1] = IF out.result = None THEN "accept" ELSE "done"]
    /\ UNCHANGED <<store, now, last, flow>>

NextCallback ==
    \/ \E expected_state \in ExpectedStates : ListenForCallback(expected_state)
    \/ \E request \in CallbackRequests : AcceptRequest(request)

SpecCallback == InitCallback /\ [][NextCallback]_vars

(***************************************************************************)
(* DeviceCodeFlow::poll_for_token (sigilforge-core/src/oauth/              *)
(* device_code.rs).  The clock `now` advances by the sleeps of the loop;   *)
(* the token endpoint answers at once.                                     *)
(***************************************************************************)
SLOW_DOWN_SECONDS == 5

TokenError_NetworkError(message) == [type |-> "NetworkError", message |-> message]

\* the DeviceAuthorization values poll_for_token is called with, in seconds
DeviceIntervals == {1, 2}
DeviceExpiresIn == {3, 20}

\* a token-endpoint answer: the HTTP status is a success or not, and the JSON
\* body holds an access_token, an error code, both or neither; "garbage" is
\* an error body that is not JSON, "network" a request that failed
DeviceResponses ==
    [kind : {"json"}, success : {TRUE}, access_token : {Some(NewAccessToken)},
     error : {None}, expires_in : {None, Some(LongExpiresIn)},
     scope : {None, Some(<<"read", " ", "write">>)},
     refresh_token : {None, Some(NewRefreshToken)}]
    \cup
    [kind : {"json"}, success : {TRUE, FALSE}, access_token : {None},
     error : {None, Some(<<"authorization_pending">>), Some(<<"slow_down">>),
              Some(<<"access_denied">>), Some(<<"expired_token">>),
              Some(<<"invalid_client">>)},
     expires_in : {None}, scope : {None}, refresh_token : {None}]
    \cup {[kind |-> "garbage", success |-> FALSE],
          [kind |-> "network", success |-> FALSE]}

\* lines 229-256: the TokenSet built from a successful answer received at t
DeviceTokenSet(resp, t) ==
    LET scopes == IF IsSome(resp.scope)
                  THEN filter_non_empty(split(Unwrap(resp.scope), " ", <<>>))
                  ELSE <<>>
        token == with_scopes(Token_new(Unwrap(resp.access_token)), scopes)
        timed == IF IsSome(resp.expires_in)
                 THEN with_expiry(token, t + DurationSeconds(Unwrap(resp.expires_in)))
                 ELSE token
    IN  IF IsSome(resp.refresh_token)
        THEN with_refresh_token(TokenSet_new(timed), Unwrap(resp.refresh_token))
        ELSE TokenSet_new(timed)

\* the loop goes on (after an extra sleep of `extra` seconds), or the call
\* returns result
Continue(extra) == [next |-> IF extra > 0 THEN "slow_down" ELSE "check",
                    result |-> None]
Return(result) == [next |-> "done", result |-> Some(result)]

\* variant: authorization_pending is handled like an unknown error code
error_outcome_PendingFails(error_code) ==
    IF error_code = <<"slow_down">> THEN Continue(SLOW_DOWN_SECONDS)
    ELSE IF error_code = <<"access_denied">>
    THEN Return(Err(TokenError_OAuthError(<<"user denied authorization">>)))
    ELSE IF error_code = <<"expired_token">>
    THEN Return(Err(TokenError_OAuthError(<<"device code expired">>)))
    ELSE Return(Err(TokenError_OAuthError(<<"OAuth error: ">> \o error_code)))

\* lines 262-287: match error_code
error_outcome(error_code) ==
    IF error_code = <<"authorization_pending">> THEN Continue(0)
    ELSE IF error_code = <<"slow_down">> THEN Continue(SLOW_DOWN_SECONDS)
    ELSE IF error_code = <<"access_denied">>
    THEN Return(Err(TokenError_OAuthError(<<"user denied authorization">>)))
    ELSE IF error_code = <<"expired_token">>
    THEN Return(Err(TokenError_OAuthError(<<"device code expired">>)))
    ELSE Return(Err(TokenError_OAuthError(<<"OAuth error: ">> \o error_code)))

\* lines 217-300: match token_result
poll_outcome(resp, t) ==
    IF resp.kind = "network"
    THEN Return(Err(TokenError_NetworkError(<<"network error during polling: ">>)))
    ELSE IF resp.success
    THEN IF resp.kind = "json" /\ IsSome(resp.access_token)
         THEN Return(Ok(DeviceTokenSet(resp, t)))
         ELSE Return(Err(TokenError_OAuthError(
                             <<"missing access_token in response">>)))
    ELSE IF resp.kind = "garbage"
    THEN Return(Err(TokenError_OAuthError(<<"unexpected error response: ">>)))
    ELSE error_outcome(IF IsSome(resp.error) THEN Unwrap(resp.error)
                       ELSE <<"unknown">>)

\* variant: the deadline itself counts as passed
timed_out_Inclusive(elapsed, timeout) == elapsed >= timeout

\* line 197: start_time.elapsed() > timeout
timed_out(elapsed, timeout) == elapsed > timeout

\* the locals of a poll_for_token call, and what it has seen so far: the
\* number of polls sent, the number of slow_down answers, when the last poll
\* was sent and what was answered to it
Polling(interval, expires_in, start_time) ==
    [op |-> "poll_for_token", interval |-> interval,
     poll_interval |-> DurationSeconds(interval),
     timeout |-> DurationSeconds(expires_in), start_time |-> start_time,
     polls |-> 0, slow_downs |-> 0, last_poll_at |-> None, response |-> None,
     result |-> None]

InitDevice ==
    /\ store = MemoryStore_new
    /\ now = Now0
    /\ last = NoCall
    /\ pc = [p \in Procs |-> "idle"]
    /\ loc = [p \in Procs |-> Idle]
    /\ flow = [kind |-> "device_code"]
    /\ net = <<>>

\* lines 186-193: poll_for_token is called
PollForToken(interval, expires_in) ==
    /\ pc[1] = "idle"
    /\ pc' = [pc EXCEPT ![1] = "check"]
    /\ loc' = [loc EXCEPT ![1] = Polling(interval, expires_in, now)]
    /\ UNCHANGED <<store, now, last, flow, net>>

\* lines 196-201: the top of the loop
CheckTimeout ==
    /\ pc[1] = "check"
    /\ IF timed_out(now - loc[1].start_time, loc[1].timeout)
       THEN /\ pc' = [pc EXCEPT ![1] = "done"]
            /\ loc' = [loc EXCEPT ![1].result =
                          Some(Err(TokenError_OAuthError(<<"device code expired">>)))]
       ELSE /\ pc' = [pc EXCEPT ![1] = "sleep"]
            /\ loc' = loc
    /\ UNCHANGED <<store, now, last, flow, net>>

\* line 204: sleep(poll_interval)
SleepInterval ==
    /\ pc[1] = "sleep"
    /\ now' = now + loc[1].poll_interval
    /\ pc' = [pc EXCEPT ![1] = "poll"]
    /\ UNCHANGED <<store, last, loc, flow, net>>

\* lines 207-300: one token request and the handling of its answer; net
\* holds the request sent last
Poll(resp) ==
    /\ pc[1] = "poll"
    /\ LET out == poll_outcome(resp, now)
       IN  /\ pc' = [pc EXCEPT ![1] = out.next]
           /\ loc' = [loc EXCEPT ![1].polls = @ + 1,
                                 ![1].slow_downs =
                                     IF resp.kind = "json" /\ ~resp.success
                                        /\ resp.error = Some(<<"slow_down">>)
                                     THEN @ + 1 ELSE @,
                                 ![1].last_poll_at = Some(now),
                                 ![1].response = Some(resp),
                                 ![1].result = out.result]
    /\ net' = <<[grant_type |-> "urn:ietf:params:oauth:grant-type:device_code",
                 at |-> now]>>
    /\ UNCHANGED <<store, now, last, flow>>

\* line 269: sleep(Duration::from_secs(5)) after a slow_down
SleepSlowDown ==
    /\ pc[1] = "slow_down"
    /\ now' = now + DurationSeconds(SLOW_DOWN_SECONDS)
    /\ pc' = [pc EXCEPT ![1] = "check"]
    /\ UNCHANGED <<store, last, loc, flow, net>>

NextDevice ==
    \/ \E interval \in DeviceIntervals, expires_in \in DeviceExpiresIn :
          PollForToken(interval, expires_in)
    \/ CheckTimeout
    \/ SleepInterval
    \/ \E resp \in DeviceResponses : Poll(resp)
    \/ SleepSlowDown

SpecDevice == InitDevice /\ [][NextDevice]_vars

\* the runtime keeps running the call: the sleeps end and every request is
\* answered
SpecDeviceLive == SpecDevice /\ WF_vars(NextDevice)

(***************************************************************************)
(* CredentialRef and its auth:// URI (sigilforge-core/src/model.rs), and   *)
(* DefaultReferenceResolver (sigilforge-core/src/resolve.rs).  In a URI    *)
(* "://" and "/" are single atoms; a segment is a sequence of atoms.       *)
(***************************************************************************)
ApiKey == "api_key"

\* str::to_lowercase, on the atoms that hold capitals
LowerAtom(a) == IF a = "GitHub" THEN "github" ELSE a
to_lowercase(str) == [i \in 1..Len(str) |-> LowerAtom(str[i])]

\* ServiceId::new normalizes to lowercase, AccountId::new keeps the string
ServiceId_new(id) == to_lowercase(id)
AccountId_new(id) == id

\* enum CredentialType
Variant(name) == [variant |-> name]
Custom(name) == [variant |-> "Custom", name |-> name]

\* CredentialType::as_str
as_str(credential_type) ==
    CASE credential_type.variant = "AccessToken" -> <<AccessToken>>
      [] credential_type.variant = "RefreshToken" -> <<RefreshToken>>
      [] credential_type.variant = "TokenExpiry" -> <<TokenExpiry>>
      [] credential_type.variant = "ApiKey" -> <<ApiKey>>
      [] credential_type.variant = "ClientId" -> <<ClientId>>
      [] credential_type.variant = "ClientSecret" -> <<ClientSecret>>
      [] credential_type.variant = "Custom" -> credential_type.name

CredentialRef_new(service, account, credential_type) ==
    [service |-> ServiceId_new(service), account |-> AccountId_new(account),
     credential_type |-> credential_type]

\* CredentialRef::to_key
to_key(cred_ref) ==
    <<"sigilforge", "/">> \o cred_ref.service \o <<"/">> \o cred_ref.account
    \o <<"/">> \o as_str(cred_ref.credential_type)

\* CredentialRef::to_auth_uri
to_auth_uri(cred_ref) ==
    <<"auth", "://">> \o cred_ref.service \o <<"/">> \o cred_ref.account
    \o <<"/">> \o as_str(cred_ref.credential_type)

\* enum ParseError and its Display
InvalidScheme(expected, got) ==
    [type |-> "InvalidScheme", expected |-> expected, got |-> got]
InvalidPath(message) == [type |-> "InvalidPath", message |-> message]
ParseError_Display(e) ==
    IF e.type = "InvalidScheme"
    THEN <<"invalid scheme: expected '">> \o e.expected \o <<"', got '">>
         \o e.got \o <<"'">>
    ELSE <<"invalid path: ">> \o e.message

\* str::starts_with / strip_prefix
starts_with(str, prefix) ==
    /\ Len(str) >= Len(prefix)
    /\ SubSeq(str, 1, Len(prefix)) = prefix
strip_prefix(str, prefix) == SubSeq(str, Len(prefix) + 1, Len(str))

\* lines 270-277: match parts[2]
credential_type_of(part) ==
    IF part = <<"token">> \/ part = <<AccessToken>> THEN Variant("AccessToken")
    ELSE IF part = <<RefreshToken>> THEN Variant("RefreshToken")
    ELSE IF part = <<ApiKey>> THEN Variant("ApiKey")
    ELSE IF part = <<ClientId>> THEN Variant("ClientId")
    ELSE IF part = <<ClientSecret>> THEN Variant("ClientSecret")
    ELSE Custom(part)

\* CredentialRef::from_auth_uri
from_auth_uri(uri) ==
    IF ~starts_with(uri, <<"auth", "://">>)
    THEN Err(InvalidScheme(<<"auth">>, split(uri, "://", <<>>)[1]))
    ELSE LET parts == split(strip_prefix(uri, <<"auth", "://">>), "/", <<>>)
         IN  IF Len(parts) # 3
             THEN Err(InvalidPath(
                        <<"expected 3 path components (service/account/type), got ">>
                        \o to_string(Len(parts))))
             ELSE Ok([service |-> ServiceId_new(parts[1]),
                      account |-> AccountId_new(parts[2]),
                      credential_type |-> credential_type_of(parts[3])])

\* enum ResolveError
ResolveError_InvalidFormat(message) == [type |-> "InvalidFormat", message |-> message]
ResolveError_NotFound(reference) == [type |-> "NotFound", reference |-> reference]
ResolveError_UnsupportedScheme(scheme) ==
    [type |-> "UnsupportedScheme", scheme |-> scheme]
ResolveError_TokenError(e) == [type |-> "TokenError", error |-> e]

\* what a resolver call did: its result, the store afterwards, whether the
\* token manager was called, the keys the resolver read from its store, and
\* the store writes made
Resolved(result, s, token_manager, reads, writes) ==
    [result |-> result, store |-> s, token_manager |-> token_manager,
     reads |-> reads, writes |-> writes]

\* variant: every credential type is read from the store
resolve_ref_AlwaysStore(s, cred_ref, resp, t) ==
    LET key == to_key(cred_ref)
    IN  IF IsSome(store_get(s, key))
        THEN Resolved(Ok(Unwrap(store_get(s, key))), s, FALSE, <<key>>, 0)
        ELSE Resolved(Err(ResolveError_NotFound(to_auth_uri(cred_ref))), s,
                      FALSE, <<key>>, 0)

\* DefaultReferenceResolver::resolve_ref
resolve_ref(s, cred_ref, resp, t) ==
    IF cred_ref.credential_type = Variant("AccessToken")
    THEN LET out == ensure_access_token(s, cred_ref.service, cred_ref.account,
                                        resp, t)
         IN  IF out.result.kind = "Ok"
             THEN Resolved(Ok(out.result.value.access_token), out.store, TRUE,
                           <<>>, out.writes)
             ELSE Resolved(Err(ResolveError_TokenError(out.result.error)),
                           out.store, TRUE, <<>>, out.writes)
    ELSE LET key == to_key(cred_ref)
         IN  IF IsSome(store_get(s, key))
             THEN Resolved(Ok(Unwrap(store_get(s, key))), s, FALSE, <<key>>, 0)
             ELSE Resolved(Err(ResolveError_NotFound(to_auth_uri(cred_ref))), s,
                           FALSE, <<key>>, 0)

\* DefaultReferenceResolver::resolve, with ResolverConfig::default()
resolve(s, reference, resp, t) ==
    IF starts_with(reference, <<"auth", "://">>)
    THEN IF from_auth_uri(reference).kind = "Err"
         THEN Resolved(Err(ResolveError_InvalidFormat(
                               ParseError_Display(from_auth_uri(reference).error))),
                       s, FALSE, <<>>, 0)
         ELSE resolve_ref(s, from_auth_uri(reference).value, resp, t)
    ELSE IF starts_with(reference, <<"vals:ref+">>)
    THEN Resolved(Err(ResolveError_UnsupportedScheme(<<"vals">>)), s, FALSE, <<>>, 0)
    ELSE Resolved(Err(ResolveError_InvalidFormat(
                          <<"unknown reference format: ">> \o reference)),
                  s, FALSE, <<>>, 0)

\* the path segments callers put into auth:// references
OPENAI == <<"openai">>
DEFAULT == <<"default">>
TypeSegments ==
    {<<ApiKey>>, <<"token">>, <<AccessToken>>, <<RefreshToken>>, <<TokenExpiry>>,
     <<"webhook">>, <<>>}

SegmentLists ==
    {<<sv, ac, ty>> : sv \in {GITHUB, <<>>}, ac \in {PERSONAL, <<>>},
                      ty \in TypeSegments}
    \cup {<<OPENAI, DEFAULT, <<ApiKey>>>>, <<<<"GitHub">>, PERSONAL, <<ApiKey>>>>,
          <<GITHUB, PERSONAL>>, <<GITHUB, PERSONAL, <<ApiKey>>, <<"extra">>>>, <<>>}

AuthUriOf(segments) == <<"auth", "://">> \o join(segments, "/")

\* references of other schemes
OtherReferences ==
    {<<"https", "://", "github", "/", "personal", "/", "token">>,
     <<"vals:ref+", "vault", "://", "path">>,
     <<"github", "/", "personal", "/", "token">>}

\* the references callers resolve, each with the segments it was built from
ReferenceInputs ==
    {[reference |-> AuthUriOf(segments), segments |-> Some(segments)] :
        segments \in SegmentLists}
    \cup {[reference |-> reference, segments |-> None] :
             reference \in OtherReferences}

ResolveRefs ==
    {from_auth_uri(AuthUriOf(segments)).value :
        segments \in {l \in SegmentLists : from_auth_uri(AuthUriOf(l)).kind = "Ok"}}

\* every key a resolver call may touch
ResolveKeys ==
    {to_key(r) : r \in ResolveRefs}
    \cup {credential_key(r.service, r.account, ct) :
             r \in ResolveRefs, ct \in CredentialTypes}

\* the static secrets put into the store
StaticSecretRefs ==
    {CredentialRef_new(OPENAI, DEFAULT, Variant("ApiKey")),
     CredentialRef_new(GITHUB, PERSONAL, Custom(<<"webhook">>))}

\* token sets of github/personal: a fresh one, and a stale one that can be
\* refreshed
ResolveTokenSets ==
    {MakeTokenSet(<<"a1">>, Some(Now0 + 2 * expiry_buffer), <<>>, None),
     MakeTokenSet(<<"a2">>, Some(Now0 + expiry_buffer \div 2), <<>>,
                  Some(<<"r1">>))}

ResolveResponses ==
    {[kind |-> "ok", access_token |-> NewAccessToken,
      expires_in |-> Some(LongExpiresIn), refresh_token |-> None,
      scopes |-> <<>>],
     [kind |-> "error", error |-> <<"invalid_grant">>]}

InitResolve ==
    /\ store = [k \in ResolveKeys |-> None]
    /\ now = Now0
    /\ last = NoCall
    /\ pc = [p \in Procs |-> "idle"]
    /\ loc = [p \in Procs |-> Idle]
    /\ flow = NoFlow
    /\ net = <<>>

\* a static secret is put under its canonical key
PutSecret(cred_ref, secret) ==
    /\ store' = store_set(store, to_key(cred_ref), secret)
    /\ last' = [op |-> "put_secret", key |-> to_key(cred_ref)]
    /\ UNCHANGED <<now, pc, loc, flow, net>>

\* the provider requests a resolver call leads to
ResolveRequests(reference) ==
    IF /\ starts_with(reference, <<"auth", "://">>)
       /\ from_auth_uri(reference).kind = "Ok"
       /\ from_auth_uri(reference).value.credential_type = Variant("AccessToken")
    THEN EnsureRequests(store, from_auth_uri(reference).value.service,
                        from_auth_uri(reference).value.account, now)
    ELSE <<>>

\* resolve(reference); segments is what the reference was built from
Resolve(reference, segments, resp) ==
    LET requests == ResolveRequests(reference)
        out == resolve(store, reference, resp, now)
    IN  /\ resp \in (IF requests # <<>> THEN ResolveResponses ELSE {NoResponse})
        /\ store' = out.store
        /\ last' = [op |-> "resolve", reference |-> reference,
                    segments |-> segments, requests |-> requests,
                    response |-> resp, result |-> out.result,
                    token_manager |-> out.token_manager, reads |-> out.reads,
                    writes |-> out.writes]
        /\ UNCHANGED <<now, pc, loc, flow, net>>

NextResolve ==
    \/ \E cred_ref \in StaticSecretRefs : PutSecret(cred_ref, <<"key-123">>)
    \/ \E token_set \in ResolveTokenSets : StoreTokenSet(MainPair, token_set)
    \/ SetClientCredentials(MainPair)
    \/ \E input \in ReferenceInputs, resp \in ResolveResponses \cup {NoResponse} :
          Resolve(input.reference, input.segments, resp)

SpecResolve == InitResolve /\ [][NextResolve]_vars

(***************************************************************************)
(* to_auth_uri followed by from_auth_uri, on its own                       *)
(***************************************************************************)
UriServices == {GITHUB, OPENAI, <<"ms", "-", "graph">>}
UriAccounts == {PERSONAL, WORK, DEFAULT}
UriCredentialTypes ==
    {Variant("AccessToken"), Variant("RefreshToken"), Variant("TokenExpiry"),
     Variant("ApiKey"), Variant("ClientId"), Variant("ClientSecret"),
     Custom(<<"webhook">>), Custom(<<"signing", "_", "key">>),
     Custom(<<"ssh">>), Custom(<<"pat">>), Custom(<<"cookie">>),
     Custom(<<"token">>)}

CredentialRefs ==
    {CredentialRef_new(sv, ac, ty) :
        sv \in UriServices, ac \in UriAccounts, ty \in UriCredentialTypes}

InitUri ==
    /\ store = MemoryStore_new
    /\ now = Now0
    /\ last = NoCall
    /\ pc = [p \in Procs |-> "idle"]
    /\ loc = [p \in Procs |-> Idle]
    /\ flow = NoFlow
    /\ net = <<>>

\* CredentialRef::from_auth_uri(&cred_ref.to_auth_uri())
RoundTrip(cred_ref) ==
    /\ last' = [op |-> "roundtrip", input |-> cred_ref,
                uri |-> to_auth_uri(cred_ref),
                result |-> from_auth_uri(to_auth_uri(cred_ref))]
    /\ UNCHANGED <<store, now, pc, loc, flow, net>>

NextUri == \E cred_ref \in CredentialRefs : RoundTrip(cred_ref)

SpecUri == InitUri /\ [][NextUri]_vars

(***************************************************************************)
(* IPC server: accept loop, connection cap and ServerHandle                *)
(* (sigilforge-daemon/src/api/server.rs).  flow is the server: the         *)
(* semaphore, the shutdown channel, the two slots of the handle and the    *)
(* accept task; net counts the connections waiting in the listen queue     *)
(* and the connections being served by a spawned handle_connection.        *)
(***************************************************************************)
MAX_CONNECTIONS == 100
MaxBacklog == 2
MaxStopCalls == 2

\* Semaphore::try_acquire_owned over the number of free permits
try_acquire_owned_Unbounded(permits) == Ok(permits - 1)
try_acquire_owned(permits) ==
    IF permits > 0 THEN Ok(permits - 1) ELSE Err("NoPermits")

\* start_server: the listener is bound, every permit is free, the channel
\* is empty and the handle holds the sender and the task
start_server ==
    [kind |-> "server", permits |-> MAX_CONNECTIONS, channel |-> 0,
     shutdown |-> Some("tx"), join_handle |-> Some("server_task"),
     join_lock |-> 0, running |-> TRUE]

\* handle.await: the join handle resolves once the accept task has ended
join_ready_NoWait(server) == TRUE
join_ready(server) == ~server.running

\* variant: rx.recv() resolves for a message only
recv_ready_MessageOnly(server) == server.channel > 0

\* rx.recv() resolves when a message is queued, or when the channel is
\* closed: the sender start_server kept is gone when it returns, so the one
\* in the handle is the last
recv_ready(server) == server.channel > 0 \/ server.shutdown = None

StopCaller == [calls |-> 0, results |-> <<>>]

InitAccept ==
    /\ store = MemoryStore_new
    /\ now = Now0
    /\ last = NoCall
    /\ pc = [p \in Procs |-> "idle"]
    /\ loc = [p \in Procs |-> StopCaller]
    /\ flow = start_server
    /\ net = [backlog |-> 0, served |-> 0]

\* a client connects to the socket: queued while the listener lives,
\* refused once the accept task has dropped it
Connect ==
    /\ net.backlog < MaxBacklog
    /\ IF flow.running
       THEN /\ net' = [net EXCEPT !.backlog = @ + 1]
            /\ last' = [op |-> "connect", result |-> "queued"]
       ELSE /\ net' = net
            /\ last' = [op |-> "connect", result |-> "refused"]
    /\ UNCHANGED <<store, now, pc, loc, flow>>

\* the listener.accept() branch of the select! loop
Accept ==
    /\ flow.running
    /\ net.backlog > 0
    /\ LET permit == try_acquire_owned(flow.permits) IN
       IF permit.kind = "Ok"
       THEN /\ flow' = [flow EXCEPT !.permits = permit.value]
            /\ net' = [backlog |-> net.backlog - 1, served |-> net.served + 1]
            /\ last' = [op |-> "accept", result |-> "served"]
       ELSE /\ flow' = flow
            /\ net' = [net EXCEPT !.backlog = @ - 1]
            /\ last' = [op |-> "accept", result |-> "dropped"]
    /\ UNCHANGED <<store, now, pc, loc>>

\* a spawned handle_connection returns and its permit is dropped
ConnectionEnds ==
    /\ net.served > 0
    /\ net' = [net EXCEPT !.served = @ - 1]
    /\ flow' = [flow EXCEPT !.permits = @ + 1]
    /\ last' = [op |-> "connection_ends", result |-> "released"]
    /\ UNCHANGED <<store, now, pc, loc>>

\* the rx.recv() branch of the select! loop: break, the task ends and the
\* listener is dropped with whatever was still queued on it
LoopShutdown ==
    /\ flow.running
    /\ recv_ready(flow)
    /\ flow' = [flow EXCEPT !.running = FALSE, !.channel = 0]
    /\ net' = [net EXCEPT !.backlog = 0]
    /\ last' = [op |-> "shutdown", result |-> "exited"]
    /\ UNCHANGED <<store, now, pc, loc>>

\* ServerHandle::stop, first statement: take the sender and send ()
StopSignal(p) ==
    /\ pc[p] = "idle"
    /\ loc[1].calls + loc[2].calls < MaxStopCalls
    /\ flow' = [flow EXCEPT
                    !.shutdown = None,
                    !.channel = IF IsSome(flow.shutdown) /\ flow.running
                                THEN 1 ELSE @]
    /\ loc' = [loc EXCEPT ![p].calls = @ + 1]
    /\ pc' = [pc EXCEPT ![p] = "join"]
    /\ last' = [op |-> "stop", result |-> "signal"]
    /\ UNCHANGED <<store, now, net>>

\* ServerHandle::stop, second statement: lock the slot and take the handle;
\* an empty slot returns Ok(()) at once
StopJoin(p) ==
    /\ pc[p] = "join"
    /\ flow.join_lock = 0
    /\ IF IsSome(flow.join_handle)
       THEN /\ flow' = [flow EXCEPT !.join_handle = None, !.join_lock = p]
            /\ pc' = [pc EXCEPT ![p] = "await"]
            /\ loc' = loc
            /\ last' = [op |-> "stop", result |-> "await"]
       ELSE /\ flow' = flow
            /\ pc' = [pc EXCEPT ![p] = "idle"]
            /\ loc' = [loc EXCEPT ![p].results = Append(@, "Ok")]
            /\ last' = [op |-> "stop", result |-> "returned"]
    /\ UNCHANGED <<store, now, net>>

\* ServerHandle::stop: handle.await? resolves and Ok(()) is returned
StopReturn(p) ==
    /\ pc[p] = "await"
    /\ join_ready(flow)
    /\ flow' = [flow EXCEPT !.join_lock = 0]
    /\ pc' = [pc EXCEPT ![p] = "idle"]
    /\ loc' = [loc EXCEPT ![p].results = Append(@, "Ok")]
    /\ last' = [op |-> "stop", result |-> "returned"]
    /\ UNCHANGED <<store, now, net>>

NextAccept ==
    \/ Connect
    \/ Accept
    \/ ConnectionEnds
    \/ LoopShutdown
    \/ \E p \in Procs : StopSignal(p)
    \/ \E p \in Procs : StopJoin(p)
    \/ \E p \in Procs : StopReturn(p)

SpecAccept == InitAccept /\ [][NextAccept]_vars

\* the ServerHandle is dropped while no stop call is running on it: its
\* sender and its JoinHandle go with it, the accept task is detached and
\* runs on
DropHandle ==
    /\ \A p \in Procs : pc[p] = "idle"
    /\ flow' = [flow EXCEPT !.shutdown = None, !.join_handle = None]
    /\ pc' = [p \in Procs |-> "dropped"]
    /\ last' = [op |-> "drop", result |-> "dropped"]
    /\ UNCHANGED <<store, now, loc, net>>

NextDrop ==
    \/ Connect
    \/ Accept
    \/ ConnectionEnds
    \/ LoopShutdown
    \/ \E p \in Procs : StopSignal(p)
    \/ \E p \in Procs : StopJoin(p)
    \/ \E p \in Procs : StopReturn(p)
    \/ DropHandle

SpecDrop == InitAccept /\ [][NextDrop]_vars

\* the runtime keeps polling the accept task, and select! picks among the
\* branches that are ready at random, so a ready rx.recv() is taken in the end
SpecDropLive == SpecDrop /\ WF_vars(LoopShutdown)

(***************************************************************************)
(* Account store (sigilforge-core/src/account_store.rs): the accounts of   *)
(* AccountStoreData in memory, behind the RwLock, and the accounts last    *)
(* written to accounts.json                                                *)
(***************************************************************************)
MaxAccountCalls == 2

\* Account::new: created now, never used
Account_new(service, id, scopes, t) ==
    [service |-> service, id |-> id, scopes |-> scopes,
     created_at |-> t, last_used |-> None]

\* AccountStore::load_from_path when the file does not exist
AccountStore_new == [accounts |-> <<>>, file |-> <<>>]

AccountStoreError_AlreadyExists(service, account) ==
    [type |-> "AlreadyExists", service |-> service, account |-> account]
AccountStoreError_NotFound(service, account) ==
    [type |-> "NotFound", service |-> service, account |-> account]
AccountStoreError_Io == [type |-> "Io"]

\* #[error("...")] of AccountStoreError
AccountStoreError_Display(e) ==
    CASE e.type = "AlreadyExists" ->
            <<"account ">> \o e.service \o <<"/">> \o e.account
                \o <<" ", "already exists">>
      [] e.type = "NotFound" ->
            <<"account ">> \o e.service \o <<"/">> \o e.account
                \o <<" ", "not found">>
      [] e.type = "Io" -> <<"I/O error: ", "io">>

is_account(a, service, id) == a.service = service /\ a.id = id

has_account_Never(accounts, service, id) == FALSE
has_account(accounts, service, id) ==
    \E i \in 1..Len(accounts) : is_account(accounts[i], service, id)

Written(result, accounts) == [result |-> result, accounts |-> accounts]

\* add_account under the write lock: the duplicate check and the push
add_account_locked(accounts, account) ==
    IF has_account(accounts, account.service, account.id)
    THEN Written(Err(AccountStoreError_AlreadyExists(account.service,
                                                      account.id)), accounts)
    ELSE Written(Ok(<<>>), Append(accounts, account))

\* remove_account under the write lock: retain, then compare the lengths
remove_account_locked(accounts, service, id) ==
    LET kept == SelectSeq(accounts, LAMBDA a : ~is_account(a, service, id)) IN
    IF Len(kept) = Len(accounts)
    THEN Written(Err(AccountStoreError_NotFound(service, id)), kept)
    ELSE Written(Ok(<<>>), kept)

\* update_last_used under the write lock: the first matching entry
update_last_used_locked(accounts, service, id, t) ==
    IF ~has_account(accounts, service, id)
    THEN Written(Err(AccountStoreError_NotFound(service, id)), accounts)
    ELSE LET i == CHOOSE k \in 1..Len(accounts) :
                    /\ is_account(accounts[k], service, id)
                    /\ \A j \in 1..(k - 1) : ~is_account(accounts[j], service, id)
         IN Written(Ok(<<>>), [accounts EXCEPT ![i].last_used = Some(t)])

\* get_account: a clone of the first matching entry
get_account(accounts, service, id) ==
    LET found == SelectSeq(accounts, LAMBDA a : is_account(a, service, id)) IN
    IF found = <<>> THEN None ELSE Some(found[1])

\* list_accounts with an optional service filter
list_accounts(accounts, service_filter) ==
    IF IsSome(service_filter)
    THEN SelectSeq(accounts, LAMBDA a : a.service = Unwrap(service_filter))
    ELSE accounts

\* save: serialize the accounts and write the file; the write may fail
save(account_store, io_ok) ==
    IF io_ok
    THEN [result |-> Ok(<<>>),
          account_store |-> [account_store EXCEPT !.file = account_store.accounts]]
    ELSE [result |-> Err(AccountStoreError_Io), account_store |-> account_store]

\* the three mutating operations of the store, lock and save together
Stored(locked, account_store, io_ok) ==
    IF locked.result.kind = "Err"
    THEN [result |-> locked.result,
          account_store |-> [account_store EXCEPT !.accounts = locked.accounts]]
    ELSE save([account_store EXCEPT !.accounts = locked.accounts], io_ok)

add_account(account_store, account, io_ok) ==
    Stored(add_account_locked(account_store.accounts, account),
           account_store, io_ok)
remove_account(account_store, service, id, io_ok) ==
    Stored(remove_account_locked(account_store.accounts, service, id),
           account_store, io_ok)
update_last_used(account_store, service, id, t, io_ok) ==
    Stored(update_last_used_locked(account_store.accounts, service, id, t),
           account_store, io_ok)

(***************************************************************************)
(* JSON-RPC handlers of the daemon (sigilforge-daemon/src/api/handlers.rs) *)
(***************************************************************************)
PARSE_ERROR == -32700
INVALID_REQUEST == -32600
METHOD_NOT_FOUND == -32601
INVALID_PARAMS == -32602
INTERNAL_ERROR == -32603

ErrorObject(code, message) == [code |-> code, message |-> message]

\* internal_error: the Display of the error under code -32603
internal_error(message) == ErrorObject(INTERNAL_ERROR, message)

\* add_account: what the handler answers for the result of the store
add_account_reply(service, account, result) ==
    IF result.kind = "Err"
    THEN IF result.error.type = "AlreadyExists"
         THEN Err(ErrorObject(INVALID_PARAMS,
                    <<"Account ">> \o service \o <<"/">> \o account
                        \o <<" ", "already exists">>))
         ELSE Err(internal_error(AccountStoreError_Display(result.error)))
    ELSE Ok([message |-> <<"Account ">> \o service \o <<"/">> \o account
                            \o <<" ", "added successfully">>])

(***************************************************************************)
(* Concurrent callers of one AccountStore: the write lock makes the check  *)
(* and the change one step, the save that follows it is another            *)
(***************************************************************************)
AccountScopes(pair) ==
    IF pair = MainPair THEN {<<READ>>, <<READ, WRITE>>} ELSE {<<READ>>}

AccountOps ==
    {[op |-> "add_account", pair |-> pair, scopes |-> sc] :
        pair \in {MainPair}, sc \in AccountScopes(MainPair)}
    \cup {[op |-> "add_account", pair |-> OtherPair, scopes |-> <<READ>>]}
    \cup {[op |-> o, pair |-> pair, scopes |-> <<>>] :
            o \in {"remove_account", "update_last_used"}, pair \in Pairs}

AccountCaller == [calls |-> 0, op |-> "idle", pair |-> MainPair]

InitAccounts ==
    /\ store = MemoryStore_new
    /\ now = Now0
    /\ last = NoCall
    /\ pc = [p \in Procs |-> "idle"]
    /\ loc = [p \in Procs |-> AccountCaller]
    /\ flow = AccountStore_new
    /\ net = <<>>

LockedResult(call) ==
    CASE call.op = "add_account" ->
            add_account_locked(flow.accounts,
                Account_new(call.pair[1], call.pair[2], call.scopes, now))
      [] call.op = "remove_account" ->
            remove_account_locked(flow.accounts, call.pair[1], call.pair[2])
      [] call.op = "update_last_used" ->
            update_last_used_locked(flow.accounts, call.pair[1], call.pair[2],
                                    now)

\* a caller takes the write lock, checks and changes the accounts, and
\* drops the lock; an error returns at once
WriteAccounts(p, call) ==
    /\ pc[p] = "idle"
    /\ loc[p].calls < MaxAccountCalls
    /\ LET locked == LockedResult(call) IN
       /\ flow' = [flow EXCEPT !.accounts = locked.accounts]
       /\ last' = [op |-> call.op, pair |-> call.pair, by |-> p,
                   result |-> locked.result,
                   reply |-> IF call.op = "add_account"
                             THEN add_account_reply(call.pair[1], call.pair[2],
                                                    locked.result)
                             ELSE locked.result]
       /\ IF locked.result.kind = "Ok"
          THEN /\ pc' = [pc EXCEPT ![p] = "save"]
               /\ loc' = [loc EXCEPT ![p] = [calls |-> @.calls + 1,
                                              op |-> call.op,
                                              pair |-> call.pair]]
          ELSE /\ pc' = pc
               /\ loc' = [loc EXCEPT ![p].calls = @ + 1]
    /\ UNCHANGED <<store, now, net>>

\* the caller saves under the read lock and returns
SaveAccounts(p, io_ok) ==
    /\ pc[p] = "save"
    /\ LET saved == save(flow, io_ok) IN
       /\ flow' = saved.account_store
       /\ last' = [op |-> "save", pair |-> loc[p].pair, by |-> p,
                   result |-> saved.result,
                   reply |-> IF loc[p].op = "add_account"
                             THEN add_account_reply(loc[p].pair[1],
                                                    loc[p].pair[2], saved.result)
                             ELSE saved.result]
    /\ pc' = [pc EXCEPT ![p] = "idle"]
    /\ loc' = [loc EXCEPT ![p].op = "idle"]
    /\ UNCHANGED <<store, now, net>>

NextAccounts ==
    \/ \E p \in Procs, call \in AccountOps : WriteAccounts(p, call)
    \/ \E p \in Procs, io_ok \in BOOLEAN : SaveAccounts(p, io_ok)
    \/ Tick

SpecAccounts == InitAccounts /\ [][NextAccounts]_vars

(***************************************************************************)
(* serde_json::Value, as far as the server looks into it.  A line is its   *)
(* length in bytes, newline included, and the JSON value its text          *)
(* denotes, None when the text is not JSON.                                *)
(***************************************************************************)
MAX_REQUEST_SIZE == 1048576

JNull == [json |-> "null"]
JNumber(n) == [json |-> "number", n |-> n]
JString(str) == [json |-> "string", str |-> str]
JArray(items) == [json |-> "array", items |-> items]
\* a params object with named members
JNamed(service) == [json |-> "object", service |-> Some(JString(service))]
\* a request object; each member is present or not
JRequest(method, params, id) ==
    [json |-> "object", method |-> method, params |-> params, id |-> id]

\* Value::as_str, Value::as_array, Value::get
Value_as_str(v) == IF v.json = "string" THEN Some(v.str) ELSE None
Value_as_array(v) == IF v.json = "array" THEN Some(v.items) ELSE None
Value_get(v, key) ==
    IF v.json = "object" /\ key \in DOMAIN v THEN v[key] ELSE None

Line(len, text) == [len |-> len, text |-> text]

\* serde_json::from_str(&line)
from_str(line) ==
    IF IsSome(line.text) THEN Ok(Unwrap(line.text)) ELSE Err(<<"syntax">>)

\* the two response shapes the server writes
ErrorResponse(code, message, id) ==
    [jsonrpc |-> "2.0", error |-> ErrorObject(code, message), id |-> id]
ResultResponse(value, id) == [jsonrpc |-> "2.0", result |-> value, id |-> id]

(***************************************************************************)
(* The daemon's API: SigilforgeApiImpl over the account store and the      *)
(* secret store.  The token manager and the resolver are taken to reach    *)
(* the same backend, as they do when create_store finds the OS keyring.    *)
(***************************************************************************)
\* what a handler did: its result, the two stores afterwards, and the call
\* that was dispatched (None when none was)
ApiResult(result, account_store, s, called) ==
    [result |-> result, account_store |-> account_store, store |-> s,
     called |-> called]

ApiCall(method, args) == [method |-> method, args |-> args]

\* DateTime::to_rfc3339: the instant as text, with the UTC offset at its end
to_rfc3339(t) == to_string(t) \o <<"+00:00">>

account_not_found(service, account) ==
    ErrorObject(INVALID_PARAMS,
        <<"Account ">> \o service \o <<"/">> \o account \o <<" ", "not found">>)

\* #[error("...")] of ResolveError
ResolveError_Display(e) ==
    CASE e.type = "InvalidFormat" -> <<"invalid reference format: ">> \o e.message
      [] e.type = "NotFound" -> <<"credential not found: ">> \o e.reference
      [] e.type = "UnsupportedScheme" -> <<"unsupported scheme: ">> \o e.scheme
      [] e.type = "TokenError" -> <<"token error: ">> \o Display(e.error)

\* get_token: the match on what ensure_access_token returned
get_token_reply(touched, out, called) ==
    IF out.result.kind = "Ok"
    THEN ApiResult(
           Ok([token |-> out.result.value.access_token,
               expires_at |->
                  IF IsSome(out.result.value.expires_at)
                  THEN Some(to_rfc3339(Unwrap(out.result.value.expires_at)))
                  ELSE None]),
           touched, out.store, called)
    ELSE ApiResult(
           Err(ErrorObject(INTERNAL_ERROR,
                 <<"Failed to get token: ">> \o Display(out.result.error)
                     \o <<". You may need to re-authenticate.">>)),
           touched, out.store, called)

\* SigilforgeApiImpl::get_token
rpc_get_token(account_store, s, service, account, resp, t, io_ok) ==
    LET service_id == ServiceId_new(service)
        account_id == AccountId_new(account)
        called == Some(ApiCall("get_token", <<service, account>>))
    IN  IF get_account(account_store.accounts, service_id, account_id) = None
        THEN ApiResult(Err(account_not_found(service, account)),
                       account_store, s, called)
        ELSE get_token_reply(
                update_last_used(account_store, service_id, account_id, t,
                                 io_ok).account_store,
                ensure_access_token(s, service_id, account_id, resp, t),
                called)

AccountInfo(a) ==
    [service |-> a.service, account |-> a.id, scopes |-> a.scopes,
     created_at |-> to_rfc3339(a.created_at),
     last_used |-> IF IsSome(a.last_used)
                   THEN Some(to_rfc3339(Unwrap(a.last_used))) ELSE None]

\* SigilforgeApiImpl::list_accounts
rpc_list_accounts(account_store, s, service) ==
    LET service_filter == IF IsSome(service)
                          THEN Some(ServiceId_new(Unwrap(service))) ELSE None
        accounts == list_accounts(account_store.accounts, service_filter)
    IN  ApiResult(Ok([accounts |->
                        [i \in 1..Len(accounts) |-> AccountInfo(accounts[i])]]),
                  account_store, s,
                  Some(ApiCall("list_accounts", <<service>>)))

\* SigilforgeApiImpl::add_account
rpc_add_account(account_store, s, service, account, scopes, t, io_ok) ==
    LET added == add_account(account_store,
                    Account_new(ServiceId_new(service), AccountId_new(account),
                                scopes, t),
                    io_ok)
    IN  ApiResult(add_account_reply(service, account, added.result),
                  added.account_store, s,
                  Some(ApiCall("add_account", <<service, account, scopes>>)))

\* SigilforgeApiImpl::resolve
resolve_reply(account_store, out, called) ==
    IF out.result.kind = "Ok"
    THEN ApiResult(Ok([value |-> out.result.value]), account_store, out.store,
                   called)
    ELSE ApiResult(
           Err(ErrorObject(INTERNAL_ERROR,
                 <<"Failed to resolve reference: ">>
                     \o ResolveError_Display(out.result.error))),
           account_store, out.store, called)

\* resolve, once the reference has been parsed
resolve_parsed(account_store, s, reference, parsed, resp, t, called) ==
    IF parsed.kind = "Err"
    THEN ApiResult(Err(ErrorObject(INVALID_PARAMS,
                         <<"Invalid reference: ">>
                             \o ParseError_Display(parsed.error))),
                   account_store, s, called)
    ELSE IF get_account(account_store.accounts, parsed.value.service,
                        parsed.value.account) = None
    THEN ApiResult(Err(account_not_found(parsed.value.service,
                                         parsed.value.account)),
                   account_store, s, called)
    ELSE resolve_reply(account_store, resolve(s, reference, resp, t), called)

rpc_resolve(account_store, s, reference, resp, t) ==
    resolve_parsed(account_store, s, reference, from_auth_uri(reference), resp,
                   t, Some(ApiCall("resolve", <<reference>>)))

(***************************************************************************)
(* process_request and handle_connection                                   *)
(* (sigilforge-daemon/src/api/server.rs)                                   *)
(***************************************************************************)
invalid_params(account_store, s) ==
    ApiResult(Err(ErrorObject(INVALID_PARAMS, <<"Invalid params">>)),
              account_store, s, None)

\* scopes.iter().filter_map(|s| s.as_str()...)
RECURSIVE filter_map_as_str(_)
filter_map_as_str(items) ==
    IF items = <<>> THEN <<>>
    ELSE (IF IsSome(Value_as_str(Head(items)))
          THEN <<Unwrap(Value_as_str(Head(items)))>> ELSE <<>>)
         \o filter_map_as_str(Tail(items))

\* params.as_array().and_then(|arr| arr.first()).and_then(|v| v.as_str())
first_as_str(params) ==
    IF IsSome(Value_as_array(params)) /\ Unwrap(Value_as_array(params)) # <<>>
    THEN Value_as_str(Unwrap(Value_as_array(params))[1])
    ELSE None

\* the match on the method name; accounts_status, which the trait does not
\* define, is never requested
call_method(method, params, account_store, s, resp, t, io_ok) ==
    LET arr == Value_as_array(params) IN
    CASE method = <<"get_token">> ->
            IF /\ IsSome(arr)
               /\ Len(Unwrap(arr)) >= 2
               /\ IsSome(Value_as_str(Unwrap(arr)[1]))
               /\ IsSome(Value_as_str(Unwrap(arr)[2]))
            THEN rpc_get_token(account_store, s,
                               Unwrap(Value_as_str(Unwrap(arr)[1])),
                               Unwrap(Value_as_str(Unwrap(arr)[2])),
                               resp, t, io_ok)
            ELSE invalid_params(account_store, s)
      [] method = <<"list_accounts">> ->
            rpc_list_accounts(account_store, s, first_as_str(params))
      [] method = <<"add_account">> ->
            IF /\ IsSome(arr)
               /\ Len(Unwrap(arr)) >= 3
               /\ IsSome(Value_as_str(Unwrap(arr)[1]))
               /\ IsSome(Value_as_str(Unwrap(arr)[2]))
               /\ IsSome(Value_as_array(Unwrap(arr)[3]))
            THEN rpc_add_account(account_store, s,
                    Unwrap(Value_as_str(Unwrap(arr)[1])),
                    Unwrap(Value_as_str(Unwrap(arr)[2])),
                    filter_map_as_str(Unwrap(Value_as_array(Unwrap(arr)[3]))),
                    t, io_ok)
            ELSE invalid_params(account_store, s)
      [] method = <<"resolve">> ->
            IF IsSome(first_as_str(params))
            THEN rpc_resolve(account_store, s, Unwrap(first_as_str(params)),
                             resp, t)
            ELSE invalid_params(account_store, s)
      [] OTHER ->
            ApiResult(Err(ErrorObject(METHOD_NOT_FOUND, <<"Method not found">>)),
                      account_store, s, None)

\* what handling a line did: the response written, the stores afterwards
\* and the call dispatched
Handled(response, account_store, s, called) ==
    [response |-> response, account_store |-> account_store, store |-> s,
     called |-> called]

\* the final match of process_request: the result or the error, with the id
answer(out, id) ==
    Handled(IF out.result.kind = "Ok"
            THEN ResultResponse(out.result.value, id)
            ELSE ErrorResponse(out.result.error.code, out.result.error.message,
                               id),
            out.account_store, out.store, out.called)

process_request(request, account_store, s, resp, t, io_ok) ==
    LET id == IF IsSome(Value_get(request, "id"))
              THEN Unwrap(Value_get(request, "id")) ELSE JNull
        method == IF IsSome(Value_get(request, "method"))
                  THEN Value_as_str(Unwrap(Value_get(request, "method")))
                  ELSE None
        params == IF IsSome(Value_get(request, "params"))
                  THEN Unwrap(Value_get(request, "params")) ELSE JArray(<<>>)
    IN  IF method = None
        THEN Handled(ErrorResponse(INVALID_REQUEST,
                                   <<"Invalid Request: missing method">>, id),
                     account_store, s, None)
        ELSE answer(call_method(Unwrap(method), params, account_store, s,
                                resp, t, io_ok), id)

\* line.len() > MAX_REQUEST_SIZE
too_large_Lenient(line) == line.len > MAX_REQUEST_SIZE + 1
too_large(line) == line.len > MAX_REQUEST_SIZE

\* the body of the loop of handle_connection for one line read
handle_line(line, account_store, s, resp, t, io_ok) ==
    IF too_large(line)
    THEN Handled(ErrorResponse(INVALID_REQUEST, <<"Request too large">>, JNull),
                 account_store, s, None)
    ELSE IF from_str(line).kind = "Err"
    THEN Handled(ErrorResponse(PARSE_ERROR,
                               <<"Parse error: ">> \o from_str(line).error,
                               JNull),
                 account_store, s, None)
    ELSE process_request(from_str(line).value, account_store, s, resp, t, io_ok)

\* writer.write_all(response), write_all(b"\n"), flush
write_line_First(outbox, response) == <<response>> \o outbox
write_line(outbox, response) == Append(outbox, response)

\* libc::getuid() of the daemon
getuid == 1000
\* peer_cred.uid() != my_uid bails out
peer_authorized_Anyone(peer_uid, my_uid) == TRUE
peer_authorized(peer_uid, my_uid) == peer_uid = my_uid
(***************************************************************************)
(* One accepted connection of the daemon.  net is the socket: the peer,    *)
(* the lines the client has written and the server has not yet read, and   *)
(* the lines the server has written.  pc is where handle_connection and    *)
(* the daemon stand, loc what the connection has read and dispatched,      *)
(* flow the account store and store the secret store.  The writes of      *)
(* accounts.json succeed here; SpecAccounts lets them fail.                *)
(***************************************************************************)
MaxLines == 2

TOKEN_URI == AuthUriOf(<<GITHUB, PERSONAL, <<"token">>>>)
API_KEY_URI == AuthUriOf(<<GITHUB, PERSONAL, <<ApiKey>>>>)

S_GITHUB == JString(GITHUB)
S_PERSONAL == JString(PERSONAL)

\* the params clients send with each method
ParamsOfMethod(method) ==
    CASE method = <<"get_token">> ->
            {Some(JArray(<<S_GITHUB, S_PERSONAL>>)),
             Some(JArray(<<JString(ACME), JString(WORK)>>)),
             Some(JArray(<<S_GITHUB>>)),
             Some(JArray(<<S_GITHUB, JNumber(7)>>)),
             Some(JArray(<<S_GITHUB, S_PERSONAL, JString(<<"extra">>)>>)),
             Some(JNamed(GITHUB)),
             None}
      [] method = <<"list_accounts">> ->
            {Some(JArray(<<>>)), Some(JArray(<<S_GITHUB>>)),
             Some(JArray(<<JNull>>)), Some(JArray(<<JNumber(7)>>)),
             Some(JNamed(GITHUB)), None}
      [] method = <<"add_account">> ->
            {Some(JArray(<<S_GITHUB, S_PERSONAL, JArray(<<JString(READ)>>)>>)),
             Some(JArray(<<S_GITHUB, S_PERSONAL,
                           JArray(<<JString(READ), JString(WRITE)>>)>>)),
             Some(JArray(<<S_GITHUB, S_PERSONAL, JArray(<<JNumber(7)>>)>>)),
             Some(JArray(<<S_GITHUB, S_PERSONAL>>)),
             Some(JArray(<<S_GITHUB, S_PERSONAL, JString(READ)>>)),
             Some(JNamed(GITHUB))}
      [] method = <<"resolve">> ->
            {Some(JArray(<<JString(TOKEN_URI)>>)),
             Some(JArray(<<JString(API_KEY_URI)>>)),
             Some(JArray(<<JString(AuthUriOf(<<GITHUB, PERSONAL>>))>>)),
             Some(JArray(<<>>)), Some(JArray(<<JNumber(7)>>)),
             Some(JNamed(GITHUB))}
      [] OTHER -> {Some(JArray(<<>>))}

RpcMethods ==
    {<<"get_token">>, <<"list_accounts">>, <<"add_account">>, <<"resolve">>,
     <<"nonexistent_method">>}

\* the texts clients send: requests, objects without a string method, and
\* text that is not JSON
RpcTexts ==
    UNION {{Some(JRequest(Some(JString(m)), params, None)) :
                params \in ParamsOfMethod(m)} : m \in RpcMethods}
    \cup {Some(JRequest(None, Some(JArray(<<>>)), None)),
          Some(JRequest(Some(JNumber(7)), Some(JArray(<<>>)), None)),
          Some(JArray(<<>>)),
          None}

\* ordinary lines, and a valid request padded to the limit and past it
RpcLines ==
    {Line(64, text) : text \in RpcTexts}
    \cup {Line(len, Some(JRequest(Some(JString(<<"list_accounts">>)),
                                  Some(JArray(<<>>)), None))) :
             len \in {MAX_REQUEST_SIZE, MAX_REQUEST_SIZE + 1}}

\* the line as sent: the client numbers its requests
Numbered(line, n) ==
    IF IsSome(line.text) /\ Unwrap(line.text).json = "object"
    THEN Line(line.len, Some([Unwrap(line.text) EXCEPT !.id = Some(JNumber(n))]))
    ELSE line

\* the token sets the add-account flow of the CLI leaves in the keyring:
\* fresh with an expiry, fresh without one, stale without a refresh token,
\* and stale with one
RpcTokenSets ==
    {MakeTokenSet(<<"a1">>, Some(Now0 + 2 * expiry_buffer), <<>>, None),
     MakeTokenSet(<<"a1">>, None, <<>>, None),
     MakeTokenSet(<<"a2">>, Some(Now0 + expiry_buffer \div 2), <<>>, None),
     MakeTokenSet(<<"a2">>, Some(Now0 + expiry_buffer \div 2), <<>>,
                  Some(<<"r1">>))}

\* the secret store the daemon finds at startup: nothing for the account,
\* or one of the token sets
RpcStores ==
    {[k \in Keys \cup ResolveKeys |-> None]}
    \cup {store_token_set([k \in Keys \cup ResolveKeys |-> None],
                          GITHUB, PERSONAL, token_set) :
             token_set \in RpcTokenSets}

NoRequests == [added |-> {}]

InitApi ==
    /\ store \in RpcStores
    /\ now = Now0
    /\ last = NoCall
    /\ pc = [p \in Procs |-> "idle"]
    /\ loc = NoRequests
    /\ flow = AccountStore_new
    /\ net = <<>>

\* the pairs whose add_account was answered with a result
Added(added, done) ==
    IF /\ IsSome(done.called)
       /\ Unwrap(done.called).method = "add_account"
       /\ "result" \in DOMAIN done.response
    THEN added \cup {<<ServiceId_new(Unwrap(done.called).args[1]),
                       AccountId_new(Unwrap(done.called).args[2])>>}
    ELSE added

\* a connection handler reads the line and answers it; the write of
\* accounts.json succeeds
Request(line) ==
    /\ \E done \in {handle_line(line, flow, store, NoResponse, now, TRUE)} :
       /\ flow' = done.account_store
       /\ store' = done.store
       /\ loc' = [added |-> Added(loc.added, done)]
       /\ last' = [op |-> "request", line |-> line, called |-> done.called,
                   response |-> done.response, at |-> now]
    /\ UNCHANGED <<now, pc, net>>

NextApi ==
    \/ \E line \in RpcLines : Request(Numbered(line, 1))
    \/ Tick

SpecApi == InitApi /\ [][NextApi]_vars

\* the lines sent over the connection that is followed step by step
ConnLines ==
    {Line(64, text) :
        text \in {Some(JRequest(Some(JString(<<"get_token">>)),
                                Some(JArray(<<S_GITHUB, S_PERSONAL>>)), None)),
                  Some(JRequest(Some(JString(<<"add_account">>)),
                                Some(JArray(<<S_GITHUB, S_PERSONAL,
                                              JArray(<<JString(READ)>>)>>)),
                                None)),
                  Some(JRequest(Some(JString(<<"list_accounts">>)),
                                Some(JArray(<<>>)), None)),
                  None}}
    \cup {Line(len, Some(JRequest(Some(JString(<<"list_accounts">>)),
                                  Some(JArray(<<>>)), None))) :
             len \in {MAX_REQUEST_SIZE, MAX_REQUEST_SIZE + 1}}

PeerUids == {getuid, getuid + 1}

Connection(peer_uid) ==
    [peer_uid |-> peer_uid, inbox |-> <<>>, outbox |-> <<>>, sent |-> 0]

NotRead == [read |-> <<>>, line |-> None, dispatched |-> <<>>]

InitRpc ==
    /\ store \in {[k \in Keys \cup ResolveKeys |-> None],
                  store_token_set([k \in Keys \cup ResolveKeys |-> None],
                      GITHUB, PERSONAL,
                      MakeTokenSet(<<"a1">>, Some(Now0 + 2 * expiry_buffer),
                                   <<>>, None))}
    /\ now = Now0
    /\ last = NoCall
    /\ pc = [conn |-> "check_peer", daemon |-> "running"]
    /\ loc = NotRead
    /\ flow = AccountStore_new
    /\ net \in {Connection(uid) : uid \in PeerUids}

\* the client writes a request line; late tells whether the shutdown
\* signal had fired by then
SendLine(line) ==
    /\ net.sent < MaxLines
    /\ pc.daemon # "exited"
    /\ net' = [net EXCEPT
                 !.sent = @ + 1,
                 !.inbox = Append(@, [line |-> Numbered(line, net.sent + 1),
                                      late |-> pc.daemon # "running"])]
    /\ last' = [op |-> "send"]
    /\ UNCHANGED <<store, now, pc, loc, flow>>

\* handle_connection, before the loop: the peer credentials
CheckPeer ==
    /\ pc.conn = "check_peer"
    /\ pc.daemon # "exited"
    /\ pc' = [pc EXCEPT !.conn = IF peer_authorized(net.peer_uid, getuid)
                                 THEN "read" ELSE "closed"]
    /\ last' = [op |-> "check_peer"]
    /\ UNCHANGED <<store, now, loc, flow, net>>

\* reader.read_line(&mut line) returns the next line
ReadLine ==
    /\ pc.conn = "read"
    /\ pc.daemon # "exited"
    /\ net.inbox # <<>>
    /\ net' = [net EXCEPT !.inbox = Tail(@)]
    /\ loc' = [loc EXCEPT !.line = Some(Head(net.inbox)),
                          !.read = Append(@, Head(net.inbox))]
    /\ pc' = [pc EXCEPT !.conn = "process"]
    /\ last' = [op |-> "read_line"]
    /\ UNCHANGED <<store, now, flow>>

\* the rest of the loop body: the size check, the parse, process_request
\* and the response written and flushed
ProcessLine ==
    /\ pc.conn = "process"
    /\ pc.daemon # "exited"
    /\ \E done \in {handle_line(Unwrap(loc.line).line, flow, store, NoResponse,
                                 now, TRUE)} :
           /\ flow' = done.account_store
           /\ store' = done.store
           /\ net' = [net EXCEPT !.outbox = write_line(@, done.response)]
           /\ loc' = [loc EXCEPT
                        !.line = None,
                        !.dispatched = IF IsSome(done.called)
                                       THEN Append(@, Unwrap(done.called))
                                       ELSE @]
           /\ last' = [op |-> "process", line |-> Unwrap(loc.line),
                       called |-> done.called, response |-> done.response,
                       at |-> now]
    /\ pc' = [pc EXCEPT !.conn = "read"]
    /\ UNCHANGED now

\* the shutdown signal: ServerHandle::stop ends the accept loop; the tasks
\* spawned for the connections are not told
Shutdown ==
    /\ pc.daemon = "running"
    /\ pc' = [pc EXCEPT !.daemon = "stopped"]
    /\ last' = [op |-> "shutdown"]
    /\ UNCHANGED <<store, now, loc, flow, net>>

\* main returns after stop and the runtime is dropped: the connection's
\* task ends wherever it stands
ProcessExit ==
    /\ pc.daemon = "stopped"
    /\ pc' = [conn |-> "closed", daemon |-> "exited"]
    /\ last' = [op |-> "exit"]
    /\ UNCHANGED <<store, now, loc, flow, net>>

NextRpc ==
    \/ \E line \in ConnLines : SendLine(line)
    \/ CheckPeer
    \/ ReadLine
    \/ ProcessLine
    \/ Shutdown
    \/ ProcessExit
    \/ Tick

SpecRpc == InitRpc /\ [][NextRpc]_vars

(***************************************************************************)
(* accounts.json as a reader of the file sees it: save serializes under    *)
(* the read lock and hands the text to fs::write, which creates or         *)
(* truncates the file and then writes the text                             *)
(***************************************************************************)
NoFile == [exists |-> FALSE, text |-> <<>>]

\* serde_json::to_string_pretty of AccountStoreData
to_string_pretty(accounts) == <<"{">> \o accounts \o <<"}">>

\* serde_json::from_str::<AccountStoreData>
from_str_accounts(text) ==
    IF Len(text) >= 2 /\ text[1] = "{" /\ text[Len(text)] = "}"
    THEN Ok(SubSeq(text, 2, Len(text) - 1))
    ELSE Err(<<"EOF while parsing">>)

\* load_from_path: the accounts of the file, none when it does not exist
load_from_path(file) ==
    IF file.exists THEN from_str_accounts(file.text) ELSE Ok(<<>>)

\* File::create: the file exists and is empty
File_create(file) == [exists |-> TRUE, text |-> <<>>]
\* write_all
write_all(file, contents) == [file EXCEPT !.text = contents]

InitSave ==
    /\ store = MemoryStore_new
    /\ now = Now0
    /\ last = NoCall
    /\ pc = [p \in Procs |-> "idle"]
    /\ loc = [p \in Procs |-> AccountCaller]
    /\ flow = AccountStore_new
    /\ net = NoFile

\* the RwLock: no writer while a save holds the read lock
WriteLocked(p, call) ==
    /\ \A q \in Procs : pc[q] # "write"
    /\ WriteAccounts(p, call)
    /\ net' = net

\* save takes the read lock, serializes, and fs::write opens the file
FsOpen(p, io_ok) ==
    /\ pc[p] = "save"
    /\ IF io_ok
       THEN /\ net' = File_create(net)
            /\ pc' = [pc EXCEPT ![p] = "write"]
            /\ loc' = loc
            /\ last' = [op |-> "open", pair |-> loc[p].pair, by |-> p,
                        result |-> Ok(<<>>), reply |-> Ok(<<>>)]
       ELSE /\ net' = net
            /\ pc' = [pc EXCEPT ![p] = "idle"]
            /\ loc' = [loc EXCEPT ![p].op = "idle"]
            /\ last' = [op |-> "save", pair |-> loc[p].pair, by |-> p,
                        result |-> Err(AccountStoreError_Io),
                        reply |-> Err(AccountStoreError_Io)]
    /\ UNCHANGED <<store, now, flow>>

\* fs::write writes the text, save drops the read lock and returns
FsWrite(p, io_ok) ==
    /\ pc[p] = "write"
    /\ net' = IF io_ok THEN write_all(net, to_string_pretty(flow.accounts))
              ELSE net
    /\ pc' = [pc EXCEPT ![p] = "idle"]
    /\ loc' = [loc EXCEPT ![p].op = "idle"]
    /\ last' = [op |-> "save", pair |-> loc[p].pair, by |-> p,
                result |-> IF io_ok THEN Ok(<<>>) ELSE Err(AccountStoreError_Io),
                reply |-> IF io_ok THEN Ok(<<>>) ELSE Err(AccountStoreError_Io)]
    /\ UNCHANGED <<store, now, flow>>

NextSave ==
    \/ \E p \in Procs, call \in AccountOps : WriteLocked(p, call)
    \/ \E p \in Procs, io_ok \in BOOLEAN : FsOpen(p, io_ok)
    \/ \E p \in Procs, io_ok \in BOOLEAN : FsWrite(p, io_ok)
    \/ Tick

SpecSave == InitSave /\ [][NextSave]_vars

(***************************************************************************)
(* One caller of the account store: each mutation runs to completion       *)
(***************************************************************************)
MaxStoreCalls == 3

StoreCall(op, pair, out) ==
    [op |-> op, pair |-> pair, result |-> out.result]

InitStore ==
    /\ store = MemoryStore_new
    /\ now = Now0
    /\ last = [op |-> "none", pair |-> MainPair, result |-> Ok(<<>>)]
    /\ pc = 0
    /\ loc = <<>>
    /\ flow = AccountStore_new
    /\ net = <<>>

StoreReturns(op, pair, out) ==
    /\ pc < MaxStoreCalls
    /\ pc' = pc + 1
    /\ flow' = out.account_store
    /\ last' = StoreCall(op, pair, out)
    /\ UNCHANGED <<store, now, loc, net>>

AddAccount(pair, scopes, io_ok) ==
    StoreReturns("add_account", pair,
        add_account(flow, Account_new(pair[1], pair[2], scopes, now), io_ok))

RemoveAccount(pair, io_ok) ==
    StoreReturns("remove_account", pair,
        remove_account(flow, pair[1], pair[2], io_ok))

UpdateLastUsed(pair, io_ok) ==
    StoreReturns("update_last_used", pair,
        update_last_used(flow, pair[1], pair[2], now, io_ok))

NextStore ==
    \/ \E pair \in Pairs, io_ok \in BOOLEAN :
          \E scopes \in AccountScopes(pair) : AddAccount(pair, scopes, io_ok)
    \/ \E pair \in Pairs, io_ok \in BOOLEAN : RemoveAccount(pair, io_ok)
    \/ \E pair \in Pairs, io_ok \in BOOLEAN : UpdateLastUsed(pair, io_ok)
    \/ Tick

SpecStore == InitStore /\ [][NextStore]_vars

(***************************************************************************)
(* The CLI's add_account without a daemon (sigilforge-cli/src/main.rs):    *)
(* it writes the token set of a finished PKCE flow into the secret store   *)
(* itself, the expiry as RFC 3339 text and the scopes under ".../scopes",  *)
(* and the token manager later reads the same store                        *)
(***************************************************************************)
CliScopes == "scopes"
CliKeys == {credential_key(p[1], p[2], CliScopes) : p \in Pairs}

\* lines 255-274: the store.set calls of fallback_add_account, in order
FallbackWrites(service, account, token_set, scope_list) ==
    <<  <<credential_key(service, account, AccessToken),
          token_set.access_token.access_token>> >>
    \o (IF IsSome(token_set.refresh_token)
        THEN << <<credential_key(service, account, RefreshToken),
                  Unwrap(token_set.refresh_token)>> >>
        ELSE <<>>)
    \o (IF IsSome(token_set.access_token.expires_at)
        THEN << <<credential_key(service, account, TokenExpiry),
                  to_rfc3339(Unwrap(token_set.access_token.expires_at))>> >>
        ELSE <<>>)
    \o << <<credential_key(service, account, CliScopes),
            join(scope_list, ",")>> >>

\* the token sets exchange_code hands to the CLI and to store_token_set
ExpiryTokenSets ==
    {MakeTokenSet(<<"a1">>, e, <<READ>>, r) :
        e \in {Some(Now0 + expiry_buffer \div 2), Some(Now0 + 2 * expiry_buffer)},
        r \in RefreshInputs}

InitExpiry ==
    /\ store = [k \in Keys \cup CliKeys |-> None]
    /\ now = Now0
    /\ last = NoCall
    /\ pc = [p \in Procs |-> "idle"]
    /\ loc = [p \in Procs |-> Idle]
    /\ flow = AccountStore_new
    /\ net = <<>>

\* lines 242-282: the tokens go into the store, then the account into the
\* account store
FallbackAddAccount(pair, token_set) ==
    /\ store' = ApplyWrites(store, FallbackWrites(pair[1], pair[2], token_set,
                                                  <<READ>>))
    /\ flow' = add_account(flow, Account_new(pair[1], pair[2], <<READ>>, now),
                           TRUE).account_store
    /\ last' = Call("fallback_add_account", pair, Some(token_set), <<>>,
                    NoResponse, Ok(<<>>),
                    Len(FallbackWrites(pair[1], pair[2], token_set, <<READ>>)),
                    {}, FALSE)
    /\ UNCHANGED <<now, pc, loc, net>>

NextExpiry ==
    \/ \E pair \in ClientPairs, token_set \in ExpiryTokenSets :
          FallbackAddAccount(pair, token_set)
    \/ \E pair \in ClientPairs, token_set \in ExpiryTokenSets :
          StoreTokenSet(pair, token_set)
    \/ \E pair \in ClientPairs : SetClientCredentials(pair)
    \/ \E pair \in ClientPairs, resp \in Responses \cup {NoResponse} :
          EnsureAccessToken(pair, resp)
    \/ \E pair \in ClientPairs : GetTokenSet(pair)
    \/ Tick

SpecExpiry == InitExpiry /\ [][NextExpiry]_vars

(***************************************************************************)
(* sigilforge-client: DaemonConnection (src/socket.rs), FallbackResolver   *)
(* (src/fallback.rs) and SigilforgeClient (src/client.rs).  A request is   *)
(* one connection: connect, write one line, read one line.                 *)
(***************************************************************************)
SigilforgeError(type) == [type |-> type]
DaemonError(code, message) ==
    [type |-> "DaemonError", code |-> code, message |-> message]

\* serde_json::json!({...}): an object whose members are strings
JObject(members) == [json |-> "object", members |-> members]

\* JsonRpcRequest serialized: params is left out when it is None
JsonRpcRequest(method, params, id) ==
    JRequest(Some(JString(method)), params, Some(JNumber(id)))

\* how the exchange on the socket goes: the connect times out or fails, the
\* write fails, the read times out or fails, the peer closes without a line,
\* or a line arrives
Transports ==
    {"connect_timeout", "connect_refused", "write_error", "read_timeout",
     "read_error", "closed", "answered"}

\* send_request once the exchange is over; line is the response line read,
\* None when it is empty or not JSON
send_request(transport, line) ==
    CASE transport = "connect_timeout" -> Err(SigilforgeError("Timeout"))
      [] transport = "connect_refused" ->
            Err(SigilforgeError("DaemonUnavailable"))
      [] transport = "write_error" -> Err(SigilforgeError("Io"))
      [] transport = "read_timeout" -> Err(SigilforgeError("Timeout"))
      [] transport = "read_error" -> Err(SigilforgeError("NetworkError"))
      [] transport = "closed" -> Err(SigilforgeError("Serialization"))
      [] transport = "answered" ->
            IF line = None \/ Unwrap(line).id.json # "number"
            THEN Err(SigilforgeError("Serialization"))
            ELSE IF "error" \in DOMAIN Unwrap(line)
            THEN Err(DaemonError(Unwrap(line).error.code,
                                 Unwrap(line).error.message))
            ELSE IF "result" \in DOMAIN Unwrap(line)
            THEN Ok(Unwrap(line).result)
            ELSE Err(DaemonError(INVALID_REQUEST,
                                 <<"missing result in response">>))

\* AccessToken::new and AccessToken::bearer
AccessToken_new(token, token_type) ==
    [token |-> token, token_type |-> token_type, expires_at |-> None]
AccessToken_bearer(token) == AccessToken_new(token, "Bearer")

\* serde_json::from_value::<GetTokenResponse>, and the AccessToken built
\* from it: access_token and token_type are required
token_from_value(sent) ==
    IF sent.kind = "Err" THEN sent
    ELSE IF {"access_token", "token_type"} \subseteq DOMAIN sent.value
    THEN Ok([token |-> sent.value.access_token,
             token_type |-> sent.value.token_type,
             expires_at |-> IF "expires_at" \in DOMAIN sent.value
                            THEN sent.value.expires_at ELSE None])
    ELSE Err(SigilforgeError("Serialization"))

\* from_value::<ResolveResponse>: value is required
secret_from_value(sent) ==
    IF sent.kind = "Err" THEN sent
    ELSE IF "value" \in DOMAIN sent.value
    THEN Ok([value |-> sent.value.value, metadata |-> None])
    ELSE Err(SigilforgeError("Serialization"))

\* from_value::<StatusResponse>: every member is optional
health_from_value(sent) ==
    IF sent.kind = "Err" THEN sent
    ELSE Ok([running |-> TRUE])

\* the request lines of DaemonConnection::health_check, get_token, resolve
health_check_request(id) == JsonRpcRequest(<<"status">>, None, id)
get_token_request(service, account, id) ==
    JsonRpcRequest(<<"get_token">>,
                   Some(JObject(<< <<"service", JString(service)>>,
                                   <<"account", JString(account)>> >>)), id)
resolve_request(reference, id) ==
    JsonRpcRequest(<<"resolve">>,
                   Some(JObject(<< <<"reference", JString(reference)>> >>)), id)

\* str::to_uppercase, on the atoms the environment variables are made of
UpperAtom(a) ==
    CASE a = "github" -> "GITHUB" [] a = "personal" -> "PERSONAL"
      [] a = "acme" -> "ACME" [] a = "work" -> "WORK" [] OTHER -> a
to_uppercase(str) == [i \in 1..Len(str) |-> UpperAtom(str[i])]

\* format!("{}_{}_{}_{}", prefix, SERVICE, ACCOUNT, suffix)
env_var(prefix, service, account, suffix) ==
    prefix \o <<"_">> \o to_uppercase(service) \o <<"_">>
        \o to_uppercase(account) \o <<"_">> \o suffix

SIGILFORGE == <<"SIGILFORGE">>
TOKEN_VAR == env_var(SIGILFORGE, GITHUB, PERSONAL, <<"TOKEN">>)

\* enum FallbackConfig
FallbackConfig_None == [kind |-> "None"]
EnvVars(prefix) == [kind |-> "EnvVars", prefix |-> prefix]
Chain(strategies) == [kind |-> "Chain", strategies |-> strategies]

NoFallback(service, account) ==
    [type |-> "NoFallback", service |-> service, account |-> account]

\* resolve_from_env for CredentialType::Token
resolve_from_env(prefix, env, service, account) ==
    IF \E e \in env : e[1] = env_var(prefix, service, account, <<"TOKEN">>)
    THEN Ok((CHOOSE e \in env :
                e[1] = env_var(prefix, service, account, <<"TOKEN">>))[2])
    ELSE Err(NoFallback(service, account))

RECURSIVE resolve_with_config(_, _, _, _)
resolve_with_config(config, env, service, account) ==
    CASE config.kind = "None" -> Err(NoFallback(service, account))
      [] config.kind = "EnvVars" ->
            resolve_from_env(config.prefix, env, service, account)
      [] config.kind = "Chain" ->
            IF config.strategies = <<>> THEN Err(NoFallback(service, account))
            ELSE IF resolve_with_config(Head(config.strategies), env, service,
                                        account).kind = "Ok"
            THEN resolve_with_config(Head(config.strategies), env, service,
                                     account)
            ELSE resolve_with_config(Chain(Tail(config.strategies)), env,
                                     service, account)

\* FallbackResolver::get_token
fallback_get_token(config, env, service, account) ==
    IF resolve_with_config(config, env, service, account).kind = "Ok"
    THEN Ok(AccessToken_bearer(
                resolve_with_config(config, env, service, account).value))
    ELSE resolve_with_config(config, env, service, account)

\* variant: every error of the daemon call leads to the fallback
try_daemon_token_AnyError(client, called) ==
    IF ~client.prefer_daemon \/ client.daemon = None THEN None
    ELSE IF called.kind = "Ok" THEN Some(called)
    ELSE None

\* try_daemon_token, with the result of DaemonConnection::get_token in
\* called; None sends the caller to the fallback
try_daemon_token(client, called) ==
    IF ~client.prefer_daemon THEN None
    ELSE IF client.daemon = None THEN None
    ELSE IF called.kind = "Ok" THEN Some(called)
    ELSE IF called.error.type = "DaemonUnavailable" THEN None
    ELSE IF called.error.type = "Timeout" THEN None
    ELSE Some(called)

\* SigilforgeClient::get_token: what is returned, and whether the fallback
\* was read
client_get_token(tried, fallback, env, service, account) ==
    IF IsSome(tried)
    THEN [result |-> Unwrap(tried), fallback_read |-> FALSE]
    ELSE [result |-> fallback_get_token(fallback, env, service, account),
          fallback_read |-> TRUE]

(***************************************************************************)
(* Log lines.  A line is the text tracing writes; the text of a request    *)
(* or a response is the strings in it.                                     *)
(***************************************************************************)
LogLine(level, by, text) == [level |-> level, by |-> by, text |-> text]

RECURSIVE strings_of(_)
strings_of(items) ==
    IF items = <<>> THEN <<>>
    ELSE (IF Head(items).json = "string" THEN Head(items).str ELSE <<>>)
         \o <<",">> \o strings_of(Tail(items))

\* serde_json::to_string of a request
request_text(request) ==
    <<"method:">> \o Unwrap(request.method).str
    \o (IF request.params = None THEN <<>>
        ELSE IF Unwrap(request.params).json = "array"
        THEN <<"params:">> \o strings_of(Unwrap(request.params).items)
        ELSE <<"params:">>
             \o strings_of([i \in 1..Len(Unwrap(request.params).members) |->
                               Unwrap(request.params).members[i][2]]))

\* the text of a response line
response_text(response) ==
    IF "error" \in DOMAIN response
    THEN <<"error:">> \o response.error.message
    ELSE IF "token" \in DOMAIN response.result
    THEN <<"result:", "token:">> \o response.result.token
    ELSE IF "access_token" \in DOMAIN response.result
    THEN <<"result:", "access_token:">> \o response.result.access_token
    ELSE IF "value" \in DOMAIN response.result
    THEN <<"result:", "value:">> \o response.result.value
    ELSE <<"result:">>

\* the daemon: handle_connection logs the line it read, at debug
daemon_log(request) ==
    <<LogLine("debug", "daemon", <<"Received request: ">> \o request_text(request))>>

\* the library: send_request logs the request and the response line, at trace
library_log(transport, request, line) ==
    (IF transport \in {"connect_timeout", "connect_refused"} THEN <<>>
     ELSE <<LogLine("trace", "library",
                    <<"sending request: ">> \o request_text(request))>>)
    \o (IF transport \in {"answered", "closed"}
        THEN <<LogLine("trace", "library",
                       <<"received response: ">>
                       \o (IF line = None THEN <<>>
                           ELSE response_text(Unwrap(line))))>>
        ELSE <<>>)

\* the CLI: DaemonClient::send_request logs both at debug
cli_log(request, response) ==
    <<LogLine("debug", "cli", <<"Sending request: ">> \o request_text(request)),
      LogLine("debug", "cli",
              <<"Received response: ">> \o response_text(response))>>

(***************************************************************************)
(* Clients of a running daemon.  store and flow are the daemon's secret    *)
(* store and account store, loc is the SigilforgeClient and its            *)
(* environment, last the call made last and net the log lines it wrote.    *)
(***************************************************************************)
\* what else may sit on the socket and answer a get_token request
OtherAnswers(id) ==
    {Some(ResultResponse([access_token |-> <<"a9">>, token_type |-> "Bearer",
                          expires_at |-> Some(Now0)], JNumber(id))),
     Some(ErrorResponse(INTERNAL_ERROR, <<"Failed to get token">>, JNumber(id))),
     None}

\* who listens on the socket: this daemon, or something with a fixed answer
Sigilforged == [peer |-> "sigilforged"]
Other(reply) == [peer |-> "other", answer |-> reply]
Peers(id) == {Sigilforged} \cup {Other(reply) : reply \in OtherAnswers(id)}

FallbackConfigs ==
    {FallbackConfig_None, EnvVars(SIGILFORGE), Chain(<<EnvVars(SIGILFORGE)>>)}

\* the environment: pairs of a variable's name and its value
Environments == {{}, {<<TOKEN_VAR, <<"env-token">>>>}}

Clients ==
    [daemon : {None, Some("socket")}, prefer_daemon : BOOLEAN,
     fallback : FallbackConfigs, env : Environments]

\* the account store of a daemon with one account
OneAccount ==
    add_account(AccountStore_new, Account_new(GITHUB, PERSONAL, <<READ>>, Now0),
                TRUE).account_store

InitClient ==
    /\ store \in RpcStores
    /\ now = Now0
    /\ last = NoCall
    /\ pc = [p \in Procs |-> "idle"]
    /\ loc \in Clients
    /\ flow \in {AccountStore_new, OneAccount}
    /\ net = <<>>

\* the daemon reads the request line and answers it
Served(request) ==
    handle_line(Line(64, Some(request)), flow, store, NoResponse, now, TRUE)

\* the exchange of one library request: the line the library reads, and the
\* daemon's stores afterwards
Exchange1(transport, peer, request) ==
    IF transport \in {"answered", "read_timeout", "read_error"}
       /\ peer = Sigilforged
    THEN [line |-> IF transport = "answered"
                   THEN Some(Served(request).response) ELSE None,
          account_store |-> Served(request).account_store,
          store |-> Served(request).store,
          log |-> daemon_log(request)]
    ELSE [line |-> IF transport = "answered" /\ peer # Sigilforged
                   THEN peer.answer ELSE None,
          account_store |-> flow, store |-> store, log |-> <<>>]

LibraryCall(op, transport, peer, request, ex, sent, out) ==
    /\ store' = ex.store
    /\ flow' = ex.account_store
    /\ net' = IF sent THEN ex.log \o library_log(transport, request, ex.line)
              ELSE <<>>
    /\ last' = [op |-> op, transport |-> transport, peer |-> peer,
                request |-> request, line |-> ex.line, sent |-> sent,
                result |-> out.result, fallback_read |-> out.fallback_read]

\* SigilforgeClient::get_token
ClientGetToken(pair, transport) ==
    /\ \E peer \in Peers(1) :
       \E request \in {get_token_request(pair[1], pair[2], 1)} :
       \E asked \in {loc.prefer_daemon /\ loc.daemon # None} :
       \E ex \in {IF asked THEN Exchange1(transport, peer, request)
                  ELSE [line |-> None, account_store |-> flow, store |-> store,
                        log |-> <<>>]} :
       \E called \in {token_from_value(send_request(transport, ex.line))} :
          /\ asked \/ (transport = "connect_refused" /\ peer = Sigilforged)
          /\ LibraryCall("get_token", IF asked THEN transport ELSE "none",
                         peer, request, ex, asked,
                         client_get_token(try_daemon_token(loc, called),
                                          loc.fallback, loc.env, pair[1],
                                          pair[2]))
    /\ UNCHANGED <<now, pc, loc>>

\* DaemonConnection::resolve
ConnResolve(reference, transport, peer) ==
    /\ \E request \in {resolve_request(reference, 1)} :
       \E ex \in {Exchange1(transport, peer, request)} :
          LibraryCall("resolve", transport, peer, request, ex, TRUE,
                      [result |-> secret_from_value(
                                      send_request(transport, ex.line)),
                       fallback_read |-> FALSE])
    /\ UNCHANGED <<now, pc, loc>>

\* DaemonConnection::health_check, which is_available turns into a bool
ConnHealthCheck(transport, peer) ==
    /\ \E request \in {health_check_request(1)} :
       \E ex \in {Exchange1(transport, peer, request)} :
          LibraryCall("health_check", transport, peer, request, ex, TRUE,
                      [result |-> health_from_value(
                                      send_request(transport, ex.line)),
                       fallback_read |-> FALSE])
    /\ UNCHANGED <<now, pc, loc>>

\* json!([a, b, ..]) of strings
json_strings(strings) ==
    JArray([i \in 1..Len(strings) |-> JString(strings[i])])

\* DaemonClient::send_request of the CLI on a connection to the daemon
CliRequest(method, strings) ==
    /\ UNCHANGED <<now, pc, loc>>
    /\ \E request \in {JRequest(Some(JString(method)),
                                Some(json_strings(strings)),
                                Some(JNumber(1)))} :
       \E done \in {Served(request)} :
          /\ store' = done.store
          /\ flow' = done.account_store
          /\ net' = daemon_log(request) \o cli_log(request, done.response)
          /\ last' = [op |-> "cli", transport |-> "answered",
                      peer |-> Sigilforged, request |-> request,
                      line |-> Some(done.response), sent |-> TRUE,
                      result |-> IF "error" \in DOMAIN done.response
                                 THEN Err(done.response.error)
                                 ELSE Ok(done.response.result),
                      fallback_read |-> FALSE]

\* DaemonClient::get_token and DaemonClient::resolve
CliGetToken(pair) ==
    CliRequest(<<"get_token">>, <<pair[1], pair[2]>>)
CliResolve(reference) ==
    CliRequest(<<"resolve">>, <<reference>>)

NextClient ==
    \/ \E pair \in Pairs, transport \in Transports :
          ClientGetToken(pair, transport)
    \/ \E reference \in {TOKEN_URI}, transport \in Transports :
          ConnResolve(reference, transport, Sigilforged)
    \/ \E transport \in Transports : ConnHealthCheck(transport, Sigilforged)
    \/ \E pair \in Pairs : CliGetToken(pair)
    \/ \E reference \in {TOKEN_URI} : CliResolve(reference)

SpecClient == InitClient /\ [][NextClient]_vars

(***************************************************************************)
(* Secret (store/mod.rs): a value and its renderings.  Here a text is the  *)
(* sequence of its characters.                                             *)
(***************************************************************************)
MaxSecretLen == 5

\* the characters secret values are made of
SecretChars == {"R", "E", "D", "A", "x"}

RECURSIVE TextsUpTo(_)
TextsUpTo(n) ==
    IF n = 0 THEN {<<>>}
    ELSE TextsUpTo(n - 1)
         \cup {Append(text, c) : text \in {t \in TextsUpTo(n - 1) : Len(t) = n - 1},
                                 c \in SecretChars}

SecretValues == TextsUpTo(MaxSecretLen)

\* Secret::new and Secret::expose
Secret_new(value) == [inner |-> value]
expose(secret) == secret.inner

\* variant: Display writes the value
Secret_Display_Exposed(secret) == secret.inner

\* impl Display for Secret: write!(f, "[REDACTED]")
Secret_Display(secret) == <<"[", "R", "E", "D", "A", "C", "T", "E", "D", "]">>

\* impl Debug for Secret: write!(f, "Secret([REDACTED])")
Secret_Debug(secret) ==
    <<"S", "e", "c", "r", "e", "t", "(", "[", "R", "E", "D", "A", "C", "T",
      "E", "D", "]", ")">>

InitSecret ==
    /\ store = MemoryStore_new
    /\ now = Now0
    /\ last \in {[op |-> "none", secret |-> Secret_new(value), text |-> <<>>] :
                    value \in SecretValues}
    /\ pc = 0
    /\ loc = <<>>
    /\ flow = AccountStore_new
    /\ net = <<>>

\* the secret made at the start is rendered once
Rendered(op, text) ==
    /\ last.op = "none"
    /\ last' = [last EXCEPT !.op = op, !.text = text]
    /\ UNCHANGED <<store, now, pc, loc, flow, net>>

\* format!("{}", secret) and format!("{:?}", secret)
FormatDisplay == Rendered("Display", Secret_Display(last.secret))
FormatDebug == Rendered("Debug", Secret_Debug(last.secret))

NextSecret == FormatDisplay \/ FormatDebug

SpecSecret == InitSecret /\ [][NextSecret]_vars

(***************************************************************************)
(* Properties of the token manager                                         *)
(***************************************************************************)
IsEnsureCall == last.op = "ensure_access_token"

\* this step is a call of ensure_access_token (on last'.pair, answered by
\* last'.response)
EnsureStep ==
    /\ last'.op = "ensure_access_token"
    /\ EnsureAccessToken(last'.pair, last'.response)

\* the spec's staleness: expires_at is set and earlier than t + buffer
Stale(token, t) ==
    /\ token.expires_at # None
    /\ token.expires_at[1] < t + DurationMinutes(5)

StoredTokenSet(pair) == get_token_set(store, pair[1], pair[2])

\* C1: every token ensure_access_token returns is valid for at least the
\* expiry buffer at the moment of return: expires_at is unset or not earlier
\* than now + buffer, also when the token comes from a refresh.
C1_ReturnedTokenValidForBuffer ==
    (IsEnsureCall /\ last.result.kind = "Ok") =>
        \/ last.result.value.expires_at = None
        \/ last.result.value.expires_at[1] >= last.at + DurationMinutes(5)

\* C2 as stated: a refresh request is sent exactly when the stored access
\* token is stale and a refresh token is stored; a fresh token (or one with
\* no expires_at) is returned as stored, with no request and no store write.
C2_RefreshExactlyWhenStale ==
    [][EnsureStep =>
        LET ts == StoredTokenSet(last'.pair)
            stale == IsSome(ts) /\ Stale(Unwrap(ts).access_token, now)
            hasRefresh == IsSome(ts) /\ IsSome(Unwrap(ts).refresh_token)
        IN  /\ (last'.requests # <<>>) <=> (stale /\ hasRefresh)
            /\ (IsSome(ts) /\ ~stale) =>
                  /\ last'.result = Ok(Unwrap(ts).access_token)
                  /\ last'.requests = <<>>
                  /\ last'.writes = 0
                  /\ store' = store]_vars

\* C2 amended: a refresh request is sent exactly when the stored access token
\* is stale, a refresh token is stored, a provider is registered for the
\* service and a client_id is stored for the account; a fresh token (or one
\* with no expires_at) is returned as stored, with no request and no write.
C2_RefreshWhenStaleAndConfigured ==
    [][EnsureStep =>
        LET pair == last'.pair
            ts == StoredTokenSet(pair)
            stale == IsSome(ts) /\ Stale(Unwrap(ts).access_token, now)
            hasRefresh == IsSome(ts) /\ IsSome(Unwrap(ts).refresh_token)
            configured ==
                /\ pair[1] \in Providers
                /\ store[credential_key(pair[1], pair[2], ClientId)] # None
        IN  /\ (last'.requests # <<>>) <=> (stale /\ hasRefresh /\ configured)
            /\ (IsSome(ts) /\ Unwrap(ts).access_token.expires_at = None) =>
                  last'.requests = <<>>
            /\ (IsSome(ts) /\ ~stale) =>
                  /\ last'.result = Ok(Unwrap(ts).access_token)
                  /\ last'.requests = <<>>
                  /\ last'.writes = 0
                  /\ store' = store]_vars

\* a refresh request carrying the stored refresh token was sent and answered
C2_Witness ==
    /\ IsEnsureCall
    /\ last.requests # <<>>
    /\ last.requests[1].refresh_token = <<"r1">>
    /\ last.response.kind = "ok"

\* C3: when the stored token is stale, a refresh token is stored and the
\* provider answers the refresh with a new token, the new TokenSet is written
\* to the store before the call returns, the call returns the provider's new
\* access token, and get_token_set right after yields that access token.
C3_RefreshPersistedBeforeReturn ==
    (IsEnsureCall /\ last.requests # <<>> /\ last.response.kind = "ok") =>
        /\ last.result.kind = "Ok"
        /\ last.result.value.access_token = last.response.access_token
        /\ last.writes >= 1
        /\ IsSome(StoredTokenSet(last.pair))
        /\ Unwrap(StoredTokenSet(last.pair)).access_token.access_token
              = last.response.access_token

C3_Witness ==
    /\ IsEnsureCall
    /\ last.requests # <<>>
    /\ last.response.kind = "ok"
    /\ last.result.kind = "Ok"
    /\ last.result.value.access_token = NewAccessToken
    /\ store[credential_key(last.pair[1], last.pair[2], AccessToken)]
          = Some(NewAccessToken)

\* the stored access token of last'.pair is stale before this step
StaleBefore ==
    /\ IsSome(StoredTokenSet(last'.pair))
    /\ Stale(Unwrap(StoredTokenSet(last'.pair)).access_token, now)

\* C5 as stated: when the refresh request fails, the call fails with Expired
\* whose message is "refresh failed: " followed by the underlying error, no
\* second request is sent, and the store is left as it was.
C5_RefreshFailureAsStated ==
    [][(EnsureStep /\ last'.response.kind = "error") =>
        /\ last'.result.kind = "Err"
        /\ last'.result.error.type = "Expired"
        /\ Head(last'.result.error.message) = "refresh failed: "
        /\ Len(last'.requests) = 1
        /\ store' = store]_vars

\* C5 amended: when the refresh request fails, the call fails with Expired
\* whose message is "token refresh failed: " followed by the rendering of the
\* underlying RefreshFailed error, exactly one request was sent, and the
\* store is left as it was.
C5_RefreshFailureSurfaced ==
    [][(EnsureStep /\ last'.response.kind = "error") =>
        /\ last'.result =
              [kind |-> "Err",
               error |-> [type |-> "Expired",
                          message |-> <<"token refresh failed: ",
                                        "token refresh failed: ",
                                        "token refresh failed: ">>
                                      \o last'.response.error]]
        /\ Len(last'.requests) = 1
        /\ store' = store]_vars

C5_Witness ==
    /\ IsEnsureCall
    /\ last.response.kind = "error"
    /\ Len(last.requests) = 1
    /\ last.result.kind = "Err"
    /\ last.result.error.type = "Expired"

\* C6 as stated: a stale token with no refresh token stored makes the call
\* fail with Expired{"no refresh token available"}, with no provider request
\* and no change of the store.
C6_NoRefreshTokenAsStated ==
    [][(EnsureStep /\ StaleBefore
        /\ Unwrap(StoredTokenSet(last'.pair)).refresh_token = None) =>
        /\ last'.result =
              [kind |-> "Err",
               error |-> [type |-> "Expired",
                          message |-> <<"no refresh token available">>]]
        /\ last'.requests = <<>>
        /\ store' = store]_vars

\* C6 amended: a stale token with no refresh token stored makes the call fail
\* with Expired{"token expired and no refresh token available"}, with no
\* provider request and no change of the store.
C6_NoRefreshTokenExpired ==
    [][(EnsureStep /\ StaleBefore
        /\ Unwrap(StoredTokenSet(last'.pair)).refresh_token = None) =>
        /\ last'.result =
              [kind |-> "Err",
               error |-> [type |-> "Expired",
                          message |->
                              <<"token expired and no refresh token available">>]]
        /\ last'.requests = <<>>
        /\ store' = store]_vars

C6_Witness ==
    /\ IsEnsureCall
    /\ last.result.kind = "Err"
    /\ last.result.error.type = "Expired"
    /\ last.requests = <<>>
    /\ IsSome(StoredTokenSet(last.pair))
    /\ Unwrap(StoredTokenSet(last.pair)).refresh_token = None
    /\ Stale(Unwrap(StoredTokenSet(last.pair)).access_token, last.at)

\* C7: with no access token stored for (service, account), the call fails
\* with NotFound{service, account}, whatever else is stored for the account
\* and for other accounts.
C7_NotFoundWithoutAccessToken ==
    [][(EnsureStep
        /\ store[credential_key(last'.pair[1], last'.pair[2], AccessToken)] = None) =>
        last'.result =
            [kind |-> "Err",
             error |-> [type |-> "NotFound",
                        service |-> last'.pair[1],
                        account |-> last'.pair[2]]]]_vars

\* NotFound although a refresh token, an expiry and client credentials are
\* stored for the account and another account holds an access token
C7_Witness ==
    /\ IsEnsureCall
    /\ last.pair = MainPair
    /\ last.result.kind = "Err"
    /\ last.result.error.type = "NotFound"
    /\ store[credential_key(GITHUB, PERSONAL, RefreshToken)] # None
    /\ store[credential_key(GITHUB, PERSONAL, TokenExpiry)] # None
    /\ store[credential_key(GITHUB, PERSONAL, ClientId)] # None
    /\ store[credential_key(ACME, WORK, AccessToken)] # None

\* C8: after a successful refresh the stored refresh token is the one in the
\* refresh response if there is one, and otherwise the one stored before.
C8_RefreshTokenRotatedOrKept ==
    [][(EnsureStep /\ last'.response.kind = "ok") =>
        LET key == credential_key(last'.pair[1], last'.pair[2], RefreshToken)
        IN  /\ store[key] # None
            /\ store'[key] = IF last'.response.refresh_token # None
                             THEN last'.response.refresh_token
                             ELSE store[key]]_vars

\* both cases: the provider sent none and the old one is still stored
C8_Witness ==
    /\ IsEnsureCall
    /\ last.response.kind = "ok"
    /\ last.response.refresh_token = None
    /\ last.result.kind = "Ok"
    /\ store[credential_key(last.pair[1], last.pair[2], RefreshToken)]
          = Some(<<"r1">>)

\* this step is a call of store_token_set with the token set last'.input
StoreStep ==
    /\ last'.op = "store_token_set"
    /\ StoreTokenSet(last'.pair, Unwrap(last'.input))

\* C9 as stated: store_token_set(t) followed by get_token_set returns a
\* TokenSet whose access_token value, expires_at, scopes and refresh_token
\* equal those of t.
C9_RoundTripAsStated ==
    (last.op = "store_token_set") =>
        LET t == Unwrap(last.input)
            g == StoredTokenSet(last.pair)
        IN  /\ IsSome(g)
            /\ Unwrap(g).access_token.access_token = t.access_token.access_token
            /\ Unwrap(g).access_token.expires_at = t.access_token.expires_at
            /\ Unwrap(g).access_token.scopes = t.access_token.scopes
            /\ Unwrap(g).refresh_token = t.refresh_token

\* no scope is empty or holds a comma
PlainScopes(scopes) ==
    \A i \in 1..Len(scopes) :
        /\ scopes[i] # <<>>
        /\ \A j \in 1..Len(scopes[i]) : scopes[i][j] # ","

\* C9 amended: store_token_set(t) followed by get_token_set returns a
\* TokenSet whose access_token value is t's; whose expires_at is t's cut to
\* whole seconds when t has one, and else the expiry stored before; whose
\* scopes are the non-empty comma-separated pieces of t's scopes joined by
\* commas (t's scopes themselves when none is empty or holds a comma) when t
\* has scopes, and else the scopes stored before; and whose refresh_token is
\* t's when t has one, and else the refresh token stored before.
C9_RoundTripUpToStorageForm ==
    [][StoreStep =>
        LET pair == last'.pair
            t == Unwrap(last'.input)
            g == get_token_set(store', pair[1], pair[2])
            before(ct) == store[credential_key(pair[1], pair[2], ct)]
        IN  /\ IsSome(g)
            /\ Unwrap(g).access_token.access_token = t.access_token.access_token
            /\ Unwrap(g).access_token.expires_at =
                  IF t.access_token.expires_at # None
                  THEN Some((t.access_token.expires_at[1] \div TicksPerSec)
                            * TicksPerSec)
                  ELSE ReadExpiry(Token_new(<<>>), before(TokenExpiry)).expires_at
            /\ Unwrap(g).access_token.scopes =
                  IF t.access_token.scopes # <<>>
                  THEN filter_non_empty(
                           split(join(t.access_token.scopes, ","), ",", <<>>))
                  ELSE ReadScopes(Token_new(<<>>), before(TokenScopes)).scopes
            /\ (t.access_token.scopes # <<>> /\ PlainScopes(t.access_token.scopes))
                  => Unwrap(g).access_token.scopes = t.access_token.scopes
            /\ Unwrap(g).refresh_token =
                  IF t.refresh_token # None THEN t.refresh_token
                  ELSE before(RefreshToken)]_vars

\* a token set with a sub-second expiry and neither scopes nor refresh token
\* was stored over an account that had scopes and a refresh token
C9_Witness ==
    /\ last.op = "store_token_set"
    /\ last.pair = MainPair
    /\ Unwrap(last.input).access_token.expires_at = Some(Now0 + expiry_buffer + 1)
    /\ Unwrap(last.input).access_token.scopes = <<>>
    /\ Unwrap(last.input).refresh_token = None
    /\ Unwrap(StoredTokenSet(MainPair)).access_token.scopes = <<READ, WRITE>>
    /\ Unwrap(StoredTokenSet(MainPair)).refresh_token # None
    /\ Unwrap(StoredTokenSet(MainPair)).access_token.expires_at
          # Unwrap(last.input).access_token.expires_at

\* C10: revoke_tokens returns success on every call: with nothing stored,
\* when called twice in a row on one account, and when deletes fail.
C10_RevokeAlwaysSucceeds ==
    (last.op = "revoke_tokens") => last.result = [kind |-> "Ok", value |-> <<>>]

\* a second revoke in a row on the same account, all three deletes failing
C10_Witness ==
    /\ last.op = "revoke_tokens"
    /\ last.again
    /\ last.failing = {AccessToken, RefreshToken, TokenExpiry}
    /\ last.result.kind = "Ok"

\* the stored token material is exactly what writing token_set leaves
StoredIs(pair, token_set) ==
    LET g == StoredTokenSet(pair)
    IN  /\ IsSome(g)
        /\ Unwrap(g).access_token.access_token = token_set.access_token.access_token
        /\ Unwrap(g).access_token.expires_at # None
        /\ Unwrap(g).access_token.expires_at[1] \div TicksPerSec
              = token_set.access_token.expires_at[1] \div TicksPerSec
        /\ Unwrap(g).access_token.scopes = token_set.access_token.scopes
        /\ Unwrap(g).refresh_token = token_set.refresh_token

BothPersisted == \A p \in Procs : pc[p] = "done" /\ loc[p].persisted

\* C4: when two concurrent calls on one account both persist, the token
\* material left in the store after both complete is one complete TokenSet:
\* access token, expiry, scopes and refresh token all come from one writer.
C4_StoredSetFromOneWriter ==
    BothPersisted => \E p \in Procs : StoredIs(MainPair, Unwrap(loc[p].token_set))

\* this step is a call of revoke_tokens on last'.pair
RevokeStep ==
    /\ last'.op = "revoke_tokens"
    /\ RevokeTokens(last'.pair, last'.failing)

\* the keys of the token material revoke_tokens is to erase
TokenKeysOf(pair) ==
    {credential_key(pair[1], pair[2], ct) :
        ct \in {AccessToken, RefreshToken, TokenExpiry}}

WriteOrRevokeStep ==
    \/ /\ last'.op = "store_token_set"
       /\ StoreTokenSet(last'.pair, Unwrap(last'.input))
    \/ /\ last'.op = "revoke_tokens"
       /\ RevokeTokens(last'.pair, last'.failing)

\* C12: for any two different (ServiceId, AccountId) pairs, store_token_set
\* or revoke_tokens on one never changes what get_token_set returns for the
\* other.
C12_AccountsStoredSeparately ==
    [][WriteOrRevokeStep =>
        \A other \in IdPairs \ {last'.pair} :
            get_token_set(store', other[1], other[2])
                = get_token_set(store, other[1], other[2])]_vars

(***************************************************************************)
(* Properties of the PKCE flow                                             *)
(***************************************************************************)
\* this step is the take of an exchange_code call by caller p
TakeStep(p) == \E code \in AuthCodes : TakeVerifier(p, code)

\* no verifier appears in two token requests
VerifierUsedOnce ==
    \A i, j \in DOMAIN net :
        i # j => net[i].code_verifier # net[j].code_verifier

\* an exchange_code call that starts after another one, with no
\* build_authorization_url in between, fails with the message msg and sends
\* no token request
LaterExchangeFails(msg) ==
    \A p \in Procs :
        (TakeStep(p) /\ flow.calls >= 1) =>
            /\ pc'[p] = "done"
            /\ loc'[p].result = Some(Err(TokenError_OAuthError(msg)))
            /\ net' = net

\* C13 as stated: each generated verifier is used in at most one token
\* request, and once exchange_code has run, every further exchange_code call
\* made without a new build_authorization_url fails with "PKCE verifier not
\* found" and sends no token request, also when the calls run concurrently.
C13_VerifierOneShotAsStated ==
    /\ [](VerifierUsedOnce)
    /\ [][LaterExchangeFails(<<"PKCE verifier not found">>)]_vars

\* C13 amended: each generated verifier is used in at most one token request,
\* and once exchange_code has run, every further exchange_code call made
\* without a new build_authorization_url fails with "PKCE verifier not found.
\* Call build_authorization_url first." and sends no token request, also when
\* the calls run concurrently.
C13_VerifierOneShot ==
    /\ [](VerifierUsedOnce)
    /\ [][LaterExchangeFails(
             <<"PKCE verifier not found",
               ". Call build_authorization_url first.">>)]_vars

\* two concurrent exchange_code calls after one build_authorization_url: one
\* has its token request in flight, the other has failed without a request
C13_Witness ==
    /\ flow.kind = "pkce"
    /\ flow.generated = 1
    /\ flow.calls = 2
    /\ pc[1] = "await"
    /\ pc[2] = "done"
    /\ loc[2].result = Some(Err(TokenError_OAuthError(VERIFIER_NOT_FOUND)))
    /\ Len(net) = 1

\* caller p holds a verifier it took out of the mutex
HoldsVerifier(p) ==
    /\ pc[p] \in {"request", "await", "done"}
    /\ loc[p].verifier # None

C37_NoPollAfterExpiry ==
    [][(\E resp \in DeviceResponses : Poll(resp))
          => now - loc[1].start_time <= loc[1].timeout]_vars

\* the listener has returned after reading a request
ListenerDone ==
    /\ pc[1] = "done"
    /\ loc[1].op = "listen_for_callback"

\* the state parameter of the request the listener read last, None if the
\* request has none
ReceivedState ==
    IF ParamsOf(Unwrap(loc[1].request)) = None THEN None
    ELSE Unwrap(ParamsOf(Unwrap(loc[1].request))).state

\* C14: listen_for_callback returns an authorization code only from a
\* callback request whose state parameter equals the expected state; a
\* request whose state does not match makes the listener fail with "state
\* parameter mismatch" and return no code.
C14_CodeOnlyForExpectedState ==
    ListenerDone =>
        /\ (loc[1].result[1].kind = "Ok") =>
              ReceivedState = Some(loc[1].expected_state)
        /\ (ReceivedState # None /\ ReceivedState # Some(loc[1].expected_state)) =>
              loc[1].result =
                  Some([kind |-> "Err",
                        error |-> [type |-> "OAuthError",
                                   message |-> <<"state parameter mismatch">>]])

(***************************************************************************)
(* Properties of the device authorization grant                            *)
(***************************************************************************)
\* the token endpoint answered with an HTTP error whose body names error_code
IsErrorResponse(resp, error_code) ==
    /\ resp.kind = "json"
    /\ ~resp.success
    /\ resp.error = Some(error_code)

\* the call has returned Err(OAuthError{message})
FailsWith(message) ==
    /\ pc'[1] = "done"
    /\ loc'[1].result =
          Some([kind |-> "Err",
                error |-> [type |-> "OAuthError", message |-> message]])

\* how poll_for_token reacts to the answer resp to the poll of this step
ResponseInterpreted(resp) ==
    /\ (resp.kind = "json" /\ resp.success /\ resp.access_token # None) =>
          /\ pc'[1] = "done"
          /\ loc'[1].result # None
          /\ loc'[1].result[1].kind = "Ok"
          /\ loc'[1].result[1].value.access_token.access_token
                = resp.access_token[1]
          /\ loc'[1].result[1].value.refresh_token = resp.refresh_token
    /\ IsErrorResponse(resp, <<"authorization_pending">>) =>
          /\ pc'[1] = "check"
          /\ loc'[1].result = None
          /\ loc'[1].poll_interval = loc[1].poll_interval
          /\ loc'[1].poll_interval = loc[1].interval * TicksPerSec
    /\ IsErrorResponse(resp, <<"access_denied">>) =>
          FailsWith(<<"user denied authorization">>)
    /\ IsErrorResponse(resp, <<"expired_token">>) =>
          FailsWith(<<"device code expired">>)
    /\ IsErrorResponse(resp, <<"invalid_client">>) =>
          FailsWith(<<"OAuth error: ", "invalid_client">>)

\* the call is about to send a poll that is not its first
NextPollDue ==
    /\ pc[1] = "poll"
    /\ loc[1].polls >= 1

\* C15: a success carrying access_token ends the loop and returns the
\* TokenSet; authorization_pending leads to another poll after the unchanged
\* interval; access_denied fails with "user denied authorization";
\* expired_token fails with "device code expired"; any other error code
\* fails with "OAuth error: {code}"; and after a success or a failing
\* response no further poll is sent.
C15_PollResponsesInterpreted ==
    /\ [][\A resp \in DeviceResponses : Poll(resp) => ResponseInterpreted(resp)]_vars
    /\ []((NextPollDue
           /\ IsErrorResponse(loc[1].response[1], <<"authorization_pending">>)) =>
             now - loc[1].last_poll_at[1] = loc[1].interval * TicksPerSec)
    /\ [][pc[1] = "done" => (pc'[1] = "done" /\ loc'[1] = loc[1] /\ net' = net)]_vars

\* the second poll is due, one interval after a first poll that was answered
\* authorization_pending
C15_Witness ==
    /\ NextPollDue
    /\ loc[1].polls = 1
    /\ IsErrorResponse(loc[1].response[1], <<"authorization_pending">>)
    /\ now - loc[1].last_poll_at[1] = loc[1].interval * TicksPerSec

\* C16: each slow_down answer lengthens the wait before the following polls
\* by five seconds on top of the base interval, cumulatively: after k
\* slow_down answers two consecutive polls are at least interval + 5k
\* seconds apart.
C16_SlowDownCumulative ==
    NextPollDue =>
        now - loc[1].last_poll_at[1]
            >= (loc[1].interval + 5 * loc[1].slow_downs) * TicksPerSec

\* every answer so far was authorization_pending or slow_down
OnlyPendingSoFar ==
    \/ loc[1].response = None
    \/ IsErrorResponse(loc[1].response[1], <<"authorization_pending">>)
    \/ IsErrorResponse(loc[1].response[1], <<"slow_down">>)

\* C17: poll_for_token always terminates: when the provider keeps answering
\* authorization_pending or slow_down, the call ends with "device code
\* expired", and it does so only once the time elapsed since the start of
\* polling exceeds expires_in_seconds.
C17_PollingTerminates ==
    /\ (pc[1] # "idle") ~> (pc[1] = "done")
    /\ []((pc[1] = "done" /\ OnlyPendingSoFar) =>
             /\ loc[1].result =
                   Some([kind |-> "Err",
                         error |-> [type |-> "OAuthError",
                                    message |-> <<"device code expired">>]])
             /\ now - loc[1].start_time > loc[1].timeout)

\* the call gave up after several polls that were all answered
\* authorization_pending or slow_down
C17_Witness ==
    /\ pc[1] = "done"
    /\ loc[1].op = "poll_for_token"
    /\ loc[1].polls >= 3
    /\ loc[1].slow_downs >= 1
    /\ OnlyPendingSoFar
    /\ loc[1].result[1].kind = "Err"
    /\ loc[1].result[1].error.message = <<"device code expired">>

(***************************************************************************)
(* Properties of the reference resolver and of the auth:// URI              *)
(***************************************************************************)
\* this step is a resolve call
ResolveStep ==
    /\ last'.op = "resolve"
    /\ Resolve(last'.reference, last'.segments, last'.response)

\* exactly three path segments, none of them empty
ThreeNonEmptySegments(segments) ==
    /\ Len(segments) = 3
    /\ \A i \in 1..3 : segments[i] # <<>>

\* C18: resolving an auth:// reference whose credential type is not
\* access_token returns exactly the secret stored at the canonical key
\* sigilforge/{service}/{account}/{credential_type}, or NotFound{reference}
\* when that key is absent, and never calls the token manager (no refresh
\* attempt, no provider request, no store write); a reference of type
\* access_token (or its alias token) is answered by ensure_access_token.
C18_ResolveDispatch ==
    [][(ResolveStep /\ last'.segments # None
        /\ ThreeNonEmptySegments(last'.segments[1])) =>
        LET service == to_lowercase(last'.segments[1][1])
            account == last'.segments[1][2]
            type == last'.segments[1][3]
            key == <<"sigilforge", "/">> \o service \o <<"/">> \o account
                   \o <<"/">> \o type
            ensured == ensure_access_token(store, service, account,
                                           last'.response, now)
        IN  IF type \in {<<"access_token">>, <<"token">>}
            THEN /\ last'.token_manager
                 /\ store' = ensured.store
                 /\ last'.result =
                       IF ensured.result.kind = "Ok"
                       THEN [kind |-> "Ok",
                             value |-> ensured.result.value.access_token]
                       ELSE [kind |-> "Err",
                             error |-> [type |-> "TokenError",
                                        error |-> ensured.result.error]]
            ELSE /\ ~last'.token_manager
                 /\ last'.requests = <<>>
                 /\ last'.writes = 0
                 /\ store' = store
                 /\ last'.result =
                       IF store[key] # None
                       THEN [kind |-> "Ok", value |-> store[key][1]]
                       ELSE [kind |-> "Err",
                             error |-> [type |-> "NotFound",
                                        reference |->
                                            <<"auth", "://">> \o service
                                            \o <<"/">> \o account
                                            \o <<"/">> \o type]]]_vars

\* the stored refresh token was resolved while the access token next to it
\* is stale and could have been refreshed: no refresh was attempted
C18_Witness ==
    /\ last.op = "resolve"
    /\ last.segments = Some(<<GITHUB, PERSONAL, <<"refresh_token">>>>)
    /\ last.result = [kind |-> "Ok", value |-> <<"r1">>]
    /\ ~last.token_manager
    /\ store[credential_key(GITHUB, PERSONAL, ClientId)] # None
    /\ Stale(Unwrap(StoredTokenSet(MainPair)).access_token, now)

\* C19: resolve fails with InvalidFormat for every auth:// URI whose path
\* does not consist of exactly three non-empty segments; a URI with an empty
\* service, account or credential-type segment is rejected before any store
\* or token-manager access.
C19_MalformedUriRejected ==
    (/\ last.op = "resolve"
     /\ last.segments # None
     /\ ~ThreeNonEmptySegments(last.segments[1])) =>
        /\ last.result.kind = "Err"
        /\ last.result.error.type = "InvalidFormat"
        /\ last.reads = <<>>
        /\ ~last.token_manager

\* C20: for every (service, account, credential_type) with valid
\* identifiers and every CredentialType variant, from_auth_uri(to_auth_uri(r))
\* yields a CredentialRef equal to r.
C20_AuthUriRoundTrip ==
    (last.op = "roundtrip") => last.result = [kind |-> "Ok", value |-> last.input]

(***************************************************************************)
(* Properties of the IPC server                                            *)
(***************************************************************************)
AcceptStep == last'.op = "accept" /\ Accept

\* C24: at most MAX_CONNECTIONS (100) connections are served at any moment;
\* a connection accepted while 100 are in progress is dropped and never
\* handed to a handler, and a permit returned by a connection that ends
\* lets a later connection be served.
C24_ConnectionCap ==
    /\ [](net.served <= MAX_CONNECTIONS)
    /\ [](net.served + flow.permits = MAX_CONNECTIONS)
    /\ [][AcceptStep =>
            IF net.served = MAX_CONNECTIONS
            THEN last'.result = "dropped" /\ net'.served = net.served
            ELSE last'.result = "served" /\ net'.served = net.served + 1]_vars

\* a connection was dropped at the cap, one then ended, and the next one
\* accepted is served
C24_Witness ==
    /\ last.op = "accept"
    /\ last.result = "served"
    /\ net.served = MAX_CONNECTIONS

StopCallStep(p) ==
    \/ last'.op = "stop" /\ StopSignal(p)
    \/ last'.op = "stop" /\ StopJoin(p)
    \/ last'.op = "stop" /\ StopReturn(p)

StopReturned == \E p \in Procs : loc[p].results # <<>>

ServerView ==
    <<flow.running, flow.permits, flow.channel, flow.shutdown,
      flow.join_handle, net>>

\* C25: every call of ServerHandle::stop returns Ok, no connection is
\* accepted once a call of stop has returned, and a call made after one has
\* returned changes nothing in the server.
C25_StopIdempotent ==
    /\ [](\A p \in Procs : \A i \in 1..Len(loc[p].results) :
            loc[p].results[i] = "Ok")
    /\ [](StopReturned => ~flow.running)
    /\ [][AcceptStep => ~StopReturned]_vars
    /\ [][\A p \in Procs :
            (StopReturned /\ StopCallStep(p)) => ServerView' = ServerView]_vars

\* two calls of stop have returned
C25_Witness ==
    /\ loc[1].results = <<"Ok", "Ok">>
    /\ ~flow.running

(***************************************************************************)
(* Properties of the account store                                         *)
(***************************************************************************)
UniqueAccounts(accounts) ==
    \A i, j \in 1..Len(accounts) :
        is_account(accounts[i], accounts[j].service, accounts[j].id) => i = j

AddAccountStep ==
    /\ last'.op = "add_account"
    /\ \E p \in Procs, call \in AccountOps : WriteAccounts(p, call)

Contains(str, atom) == \E i \in 1..Len(str) : str[i] = atom

\* C28: the account store never holds two accounts with the same
\* (service, id), whatever the interleaving of concurrent add_account,
\* remove_account and update_last_used calls; an add_account for a pair
\* that is already stored fails with AlreadyExists, which the handler answers
\* with JSON-RPC error -32602 and a message containing "already exists", and
\* leaves the accounts as they were.
C28_AccountsUnique ==
    /\ [](UniqueAccounts(flow.accounts) /\ UniqueAccounts(flow.file))
    /\ [][AddAccountStep =>
            IF has_account(flow.accounts, last'.pair[1], last'.pair[2])
            THEN /\ last'.result.kind = "Err"
                 /\ last'.result.error.type = "AlreadyExists"
                 /\ last'.reply.kind = "Err"
                 /\ last'.reply.error.code = -32602
                 /\ Contains(last'.reply.error.message, "already exists")
                 /\ flow'.accounts = flow.accounts
            ELSE /\ last'.result.kind = "Ok"
                 /\ Len(flow'.accounts) = Len(flow.accounts) + 1]_vars

\* an add_account for a stored pair was refused while the other caller was
\* between its change and its save
C28_Witness ==
    /\ last.op = "add_account"
    /\ last.result.kind = "Err"
    /\ \E p \in Procs : pc[p] = "save" /\ p # last.by
    /\ \E i \in 1..Len(flow.accounts) : IsSome(flow.accounts[i].last_used)

(***************************************************************************)
(* Properties of a connection                                              *)
(***************************************************************************)
CheckPeerStep == last'.op = "check_peer" /\ CheckPeer
ReadLineStep == last'.op = "read_line" /\ ReadLine
ProcessStep == last'.op = "process" /\ ProcessLine

ForeignPeer == net.peer_uid # getuid

\* C21: on a connection whose peer UID differs from the server's UID no
\* request line is read, no RPC is dispatched and no response line is
\* written; the UID is checked once, before the first line is read, and a
\* mismatch closes the connection.
C21_PeerUidGate ==
    /\ [](ForeignPeer =>
            /\ loc.read = <<>>
            /\ loc.dispatched = <<>>
            /\ net.outbox = <<>>)
    /\ [][CheckPeerStep =>
            /\ loc.read = <<>>
            /\ pc'.conn = IF ForeignPeer THEN "closed" ELSE "read"]_vars
    /\ [][pc.conn # "check_peer" => pc'.conn # "check_peer"]_vars
    /\ [][ReadLineStep => pc.conn = "read"]_vars

\* a foreign peer has written its requests and the connection is closed
C21_Witness ==
    /\ ForeignPeer
    /\ pc.conn = "closed"
    /\ pc.daemon = "running"
    /\ Len(net.inbox) >= 2

\* the line is one the server parses and hands to process_request
Answerable(line) ==
    /\ line.len <= MAX_REQUEST_SIZE
    /\ IsSome(line.text)

TooLargeResponse ==
    ErrorResponse(-32600, <<"Request too large">>, JNull)

\* C23: a request line longer than 1 MiB (1,048,576 bytes) is answered with
\* error -32600 "Request too large" and is not dispatched, the connection
\* stays open, and a well-formed request that follows it on the connection
\* gets its result.
C23_OversizeRejected ==
    /\ [][(ProcessStep /\ Unwrap(loc.line).line.len > 1048576) =>
            /\ last'.response = TooLargeResponse
            /\ last'.called = None
            /\ loc'.dispatched = loc.dispatched
            /\ flow' = flow
            /\ store' = store
            /\ pc'.conn = "read"]_vars
    /\ [][(/\ ProcessStep
           /\ net.outbox # <<>>
           /\ net.outbox[Len(net.outbox)] = TooLargeResponse
           /\ Answerable(Unwrap(loc.line).line)
           /\ Value_get(Unwrap(Unwrap(loc.line).line.text), "method")
                = Some(JString(<<"list_accounts">>))) =>
            /\ "result" \in DOMAIN last'.response
            /\ last'.response.id = JNumber(Len(loc.read))]_vars

\* an oversize line was refused and the request after it answered
C23_Witness ==
    /\ Len(net.outbox) = 2
    /\ net.outbox[1] = TooLargeResponse
    /\ "result" \in DOMAIN net.outbox[2]
    /\ loc.read[1].line.len = MAX_REQUEST_SIZE + 1

\* C26: once the shutdown signal has fired, the connection completes the
\* request it is processing, its response being written before the
\* connection ends, and no request that arrives on the connection after
\* the signal is dispatched.
C26_ShutdownCancelsConnection ==
    /\ [][(ProcessStep /\ Unwrap(loc.line).late) => last'.called = None]_vars
    /\ [](pc.conn = "closed" => loc.line = None)

(***************************************************************************)
(* Properties of the requests                                              *)
(***************************************************************************)
RequestStep ==
    /\ last'.op = "request"
    /\ \E line \in RpcLines : Request(Numbered(line, 1))

ErrorCodeOf(response) ==
    IF "error" \in DOMAIN response THEN Some(response.error.code) ELSE None

AllStrings(items) == \A i \in 1..Len(items) : items[i].json = "string"

\* params is a positional array of the method's arity and types
WellFormedParams(method, params) ==
    /\ params.json = "array"
    /\ CASE method = <<"get_token">> ->
                Len(params.items) = 2 /\ AllStrings(params.items)
         [] method = <<"list_accounts">> ->
                /\ Len(params.items) <= 1
                /\ \A i \in 1..Len(params.items) :
                       params.items[i].json \in {"string", "null"}
         [] method = <<"add_account">> ->
                /\ Len(params.items) = 3
                /\ params.items[1].json = "string"
                /\ params.items[2].json = "string"
                /\ params.items[3].json = "array"
                /\ AllStrings(params.items[3].items)
         [] method = <<"resolve">> ->
                Len(params.items) = 1 /\ AllStrings(params.items)

KnownMethods ==
    {<<"get_token">>, <<"list_accounts">>, <<"add_account">>, <<"resolve">>}

\* the code the claim gives a request text, None when it gives none
MalformedCode(text) ==
    IF text = None THEN Some(-32700)
    ELSE IF \/ Value_get(Unwrap(text), "method") = None
            \/ Unwrap(Value_get(Unwrap(text), "method")).json # "string"
    THEN Some(-32600)
    ELSE IF Unwrap(Value_get(Unwrap(text), "method")).str \notin KnownMethods
    THEN Some(-32601)
    ELSE IF ~WellFormedParams(
                Unwrap(Value_get(Unwrap(text), "method")).str,
                IF IsSome(Value_get(Unwrap(text), "params"))
                THEN Unwrap(Value_get(Unwrap(text), "params"))
                ELSE JArray(<<>>))
    THEN Some(-32602)
    ELSE None

\* C27: every malformed request gets its JSON-RPC error code: -32700 for
\* text that is not JSON, -32600 for JSON without a string method, -32601
\* for an unknown method, and -32602 for params that are not a positional
\* array of the method's arity and types (wrong number of elements, wrong
\* element types, or a named object), for every method that takes params.
C27_MalformedRequestCodes ==
    [][(RequestStep /\ last'.line.len <= MAX_REQUEST_SIZE
          /\ IsSome(MalformedCode(last'.line.text))) =>
        ErrorCodeOf(last'.response) = MalformedCode(last'.line.text)]_vars

IsGetToken(called, pair) ==
    /\ IsSome(called)
    /\ Unwrap(called).method = "get_token"
    /\ ServiceId_new(Unwrap(called).args[1]) = pair[1]
    /\ AccountId_new(Unwrap(called).args[2]) = pair[2]

\* C29: after an add_account RPC for (service, account) has succeeded, a
\* get_token RPC for the same pair returns a result with a non-empty token
\* and an expires_at value.
C29_GetTokenAfterAdd ==
    [][\A pair \in Pairs :
         (RequestStep /\ pair \in loc.added /\ IsGetToken(last'.called, pair)) =>
            /\ "result" \in DOMAIN last'.response
            /\ last'.response.result.token # <<>>
            /\ IsSome(last'.response.result.expires_at)]_vars

LastUsed(accounts, pair) ==
    IF has_account(accounts, pair[1], pair[2])
    THEN Unwrap(get_account(accounts, pair[1], pair[2])).last_used
    ELSE None

\* C30: an account's last_used changes on a get_token RPC that issues a
\* token for it, and only then: a get_token that fails, list_accounts,
\* add_account and resolve leave it as it was.
C30_LastUsedOnlyOnIssue ==
    [][\A pair \in Pairs :
         /\ (LastUsed(flow'.accounts, pair) # LastUsed(flow.accounts, pair)) =>
               /\ RequestStep
               /\ IsGetToken(last'.called, pair)
               /\ "result" \in DOMAIN last'.response
         /\ (/\ RequestStep
             /\ IsGetToken(last'.called, pair)
             /\ "result" \in DOMAIN last'.response) =>
               LastUsed(flow'.accounts, pair) = Some(now)]_vars

(***************************************************************************)
(* Properties of the accounts file                                         *)
(***************************************************************************)
AllReturned == \A p \in Procs : pc[p] = "idle"

\* C31: once every concurrent add_account, remove_account and
\* update_last_used call has returned, the file holds exactly the account
\* list in memory, and at every moment the file a reader finds is a complete
\* account list.
C31_FileFollowsMemory ==
    /\ AllReturned => load_from_path(net) = Ok(flow.accounts)
    /\ load_from_path(net).kind = "Ok"

(***************************************************************************)
(* Properties of one account store mutation                                *)
(***************************************************************************)
MutationStep ==
    \/ \E pair \in Pairs, io_ok \in BOOLEAN :
          \E scopes \in AccountScopes(pair) : AddAccount(pair, scopes, io_ok)
    \/ \E pair \in Pairs, io_ok \in BOOLEAN : RemoveAccount(pair, io_ok)
    \/ \E pair \in Pairs, io_ok \in BOOLEAN : UpdateLastUsed(pair, io_ok)

\* C38: an add_account, remove_account or update_last_used that returns an
\* error (AlreadyExists, NotFound, or a failure to write the file) leaves the
\* account list in memory exactly as it was before the call.
C38_ErrorLeavesMemory ==
    [][MutationStep /\ last'.result.kind = "Err"
          => flow'.accounts = flow.accounts]_vars

(***************************************************************************)
(* Properties of a stored expiry that is not a number                      *)
(***************************************************************************)
\* an access token is stored for pair, and the text under its token_expiry
\* key is empty or holds a character that is not a decimal digit
UnparsableExpiry(pair) ==
    /\ store[credential_key(pair[1], pair[2], AccessToken)] # None
    /\ store[credential_key(pair[1], pair[2], TokenExpiry)] # None
    /\ LET text == Unwrap(store[credential_key(pair[1], pair[2], TokenExpiry)])
       IN  text = <<>> \/ \E i \in 1..Len(text) : ~IsDigit(text[i])

\* C39: when the text stored under token_expiry is not a decimal integer,
\* get_token_set returns the stored access token with no expires_at and no
\* error, and ensure_access_token returns that token as it is stored, without
\* a refresh request and without a write, whatever the time.
C39_UnparsableExpiryNeverStale ==
    /\ [](\A pair \in ClientPairs :
            UnparsableExpiry(pair) =>
                /\ IsSome(StoredTokenSet(pair))
                /\ Unwrap(StoredTokenSet(pair)).access_token.access_token
                     = Unwrap(store[credential_key(pair[1], pair[2],
                                                   AccessToken)])
                /\ Unwrap(StoredTokenSet(pair)).access_token.expires_at = None)
    /\ [][(EnsureStep /\ UnparsableExpiry(last'.pair)) =>
            /\ last'.requests = <<>>
            /\ last'.result = Ok(Unwrap(StoredTokenSet(last'.pair)).access_token)
            /\ last'.writes = 0
            /\ store' = store]_vars

\* the CLI stored a token that expires within the buffer, with a refresh
\* token, the client id is stored, and ensure_access_token returned the token
\* without a request
C39_Witness ==
    /\ IsEnsureCall
    /\ last.pair = MainPair
    /\ UnparsableExpiry(MainPair)
    /\ store[credential_key(GITHUB, PERSONAL, TokenExpiry)]
         = Some(to_rfc3339(Now0 + expiry_buffer \div 2))
    /\ store[credential_key(GITHUB, PERSONAL, RefreshToken)] # None
    /\ store[credential_key(GITHUB, PERSONAL, ClientId)] # None
    /\ last.result.kind = "Ok"
    /\ last.requests = <<>>
    /\ now > Now0

(***************************************************************************)
(* Properties of the ServerHandle                                          *)
(***************************************************************************)
DropStep == last'.op = "drop" /\ DropHandle

\* the sender of the handle is gone: stop has been called or the handle has
\* been dropped
SenderGone == flow.shutdown = None

\* C40 as stated: the accept loop exits when the handle is dropped as it does
\* when stop is called, and no connection is accepted after stop has been
\* called or the handle has been dropped.
C40_NoAcceptAfterStopOrDrop ==
    /\ [](~flow.running => SenderGone)
    /\ [][AcceptStep => ~SenderGone]_vars
    /\ SenderGone ~> ~flow.running

\* C40 amended: the accept loop runs as long as the handle holds its sender;
\* dropping the handle closes the shutdown channel, which makes rx.recv()
\* ready as a stop call does, and the loop then exits; once it has exited no
\* connection is accepted any more.
C40_LoopExitsOnStopOrDrop ==
    /\ [](~flow.running => SenderGone)
    /\ [][DropStep => (SenderGone' /\ recv_ready(flow'))]_vars
    /\ [][AcceptStep => flow.running]_vars
    /\ [](~flow.running => ~ENABLED Accept)
    /\ SenderGone ~> ~flow.running

\* the handle was dropped with no stop call made on it, and the accept loop
\* has exited
C40_Witness ==
    /\ \A p \in Procs : pc[p] = "dropped" /\ loc[p].calls = 0
    /\ SenderGone
    /\ ~flow.running
    /\ last.op = "shutdown"

(***************************************************************************)
(* Properties of the client library and of the CLI client                  *)
(***************************************************************************)
GetTokenStep ==
    /\ last'.op = "get_token"
    /\ \E pair \in Pairs, transport \in Transports :
          ClientGetToken(pair, transport)

\* the daemon call of the step was made and ended in DaemonUnavailable or
\* in Timeout
EndedUnavailable(call) ==
    /\ call.sent
    /\ send_request(call.transport, call.line).kind = "Err"
    /\ send_request(call.transport, call.line).error.type
          \in {"DaemonUnavailable", "Timeout"}

\* the daemon's answer is what get_token returns, and the fallback is not read
AnswerReturned(call) ==
    /\ ~call.fallback_read
    /\ call.result = token_from_value(send_request(call.transport, call.line))

\* a token from the fallback is a Bearer token with no expires_at
FallbackTokenIsBearer(call) ==
    call.fallback_read /\ call.result.kind = "Ok"
        => /\ call.result.value.token_type = "Bearer"
           /\ call.result.value.expires_at = None

\* C32 as stated, "no daemon connection is configured" being a client whose
\* daemon is None: get_token reads the fallback iff there is no daemon
\* connection or the daemon call ended in DaemonUnavailable or Timeout; an
\* answer of the daemon is returned as it is; a fallback token is a Bearer
\* token with no expires_at.
C32_FallbackIffNoConnection ==
    [][GetTokenStep =>
          /\ last'.fallback_read
                <=> (loc.daemon = None \/ EndedUnavailable(last'))
          /\ last'.sent /\ ~EndedUnavailable(last') => AnswerReturned(last')
          /\ FallbackTokenIsBearer(last')]_vars

\* C32: get_token reads the fallback iff the client has no daemon connection,
\* or was set not to prefer the daemon, or the daemon call ended in
\* DaemonUnavailable or Timeout; when the daemon call ends otherwise, with a
\* token or with any other error, that is what get_token returns and the
\* fallback is not read; a token from the fallback is a Bearer token with no
\* expires_at.
C32_FallbackIffNotAskedOrUnavailable ==
    [][GetTokenStep =>
          /\ last'.sent <=> (loc.daemon # None /\ loc.prefer_daemon)
          /\ last'.fallback_read
                <=> (loc.daemon = None \/ ~loc.prefer_daemon
                        \/ EndedUnavailable(last'))
          /\ last'.sent /\ ~EndedUnavailable(last') => AnswerReturned(last')
          /\ FallbackTokenIsBearer(last')]_vars

\* a read timeout sent get_token to the fallback, which gave a token
C32_Witness ==
    /\ last.op = "get_token"
    /\ last.sent
    /\ last.transport = "read_timeout"
    /\ last.fallback_read
    /\ last.result.kind = "Ok"
    /\ last.result.value = AccessToken_bearer(<<"env-token">>)

\* a request of the library that this daemon answered
LibraryAnswered(call) ==
    /\ call.op \in {"get_token", "resolve", "health_check"}
    /\ call.sent
    /\ call.transport = "answered"
    /\ call.peer = Sigilforged

\* the daemon turned the request down for its method name or its params
Rejected(call) ==
    /\ "error" \in DOMAIN Unwrap(call.line)
    /\ Unwrap(call.line).error.code \in {METHOD_NOT_FOUND, INVALID_PARAMS}

\* C35: no request of the client library that the daemon answers (status,
\* get_token, resolve, with the params the library writes) is answered with
\* -32601 or -32602, and the health check of a running daemon succeeds, so
\* that is_daemon_available() is true.
C35_LibraryRequestsAccepted ==
    LibraryAnswered(last)
        => /\ ~Rejected(last)
           /\ last.op = "health_check" => last.result.kind = "Ok"

\* text holds needle, atom for atom
Occurs(needle, text) ==
    \E i \in 1..(Len(text) - Len(needle) + 1) :
        SubSeq(text, i, i + Len(needle) - 1) = needle

\* the secret values the daemon's store holds: access tokens, refresh
\* tokens, client secrets and API keys
SecretTypes == {AccessToken, RefreshToken, ClientSecret, ApiKey}
Secrets(s) ==
    {Unwrap(s[k]) : k \in {key \in DOMAIN s :
                              IsSome(s[key]) /\ key[Len(key)] \in SecretTypes}}

\* C34: no log line, of the daemon, of the client library or of the CLI
\* client, at any level, holds a secret value of the daemon's store.
C34_NoSecretInLogs ==
    \A i \in 1..Len(net) : \A secret \in Secrets(store) :
        ~Occurs(secret, net[i].text)

\* the value itself and its substrings of 4 characters or more
Exposures(value) ==
    (IF value = <<>> THEN {} ELSE {value})
    \cup {SubSeq(value, span[1], span[2]) :
             span \in {sp \in (1..Len(value)) \X (1..Len(value)) :
                          sp[2] >= sp[1] + 3}}

\* the text shows the value or a piece of it
Exposes(text, value) == \E piece \in Exposures(value) : Occurs(piece, text)

RenderedSecret == last.op \in {"Display", "Debug"}

\* C33 as stated: whatever the value, the Display and the Debug text of a
\* Secret hold neither the value nor a substring of it of 4 characters or
\* more.
C33_RenderingHidesEveryValue ==
    RenderedSecret => ~Exposes(last.text, expose(last.secret))

\* the redaction texts
REDACTED_TEXT == <<"[", "R", "E", "D", "A", "C", "T", "E", "D", "]">>
DEBUG_TEXT == <<"S", "e", "c", "r", "e", "t", "(">> \o REDACTED_TEXT \o <<")">>

\* C33: the Display and the Debug text of a Secret are fixed texts that do
\* not depend on the value, "[REDACTED]" and "Secret([REDACTED])"; they hold
\* the value or a substring of it of 4 characters or more only when that
\* piece is itself part of "Secret([REDACTED])".
C33_RenderingIsFixed ==
    RenderedSecret
        => /\ last.op = "Display" => last.text = REDACTED_TEXT
           /\ last.op = "Debug" => last.text = DEBUG_TEXT
           /\ ~Exposes(DEBUG_TEXT, expose(last.secret))
                 => ~Exposes(last.text, expose(last.secret))

\* a value of five characters, none of its pieces in the redaction text,
\* was rendered with Display
C33_Witness ==
    /\ last.op = "Display"
    /\ expose(last.secret) = <<"A", "x", "E", "D", "R">>
    /\ ~Exposes(DEBUG_TEXT, expose(last.secret))
    /\ last.text = REDACTED_TEXT
====
